---------------------------- MODULE Spec2Model ----------------------------
(***************************************************************************)
(* Click enrichment and normalisation (write-clicks-to-supabase):          *)
(* syncClickToSupabase, getLinkAndProductData and prepareSupabaseData,     *)
(* with the Firestore collections they read and the link_clicks table      *)
(* they upsert into.                                                       *)
(***************************************************************************)
EXTENDS Integers, Sequences, FiniteSets, TLC

(***************************************************************************)
(* JavaScript values.  Every value carries its kind, so that values of     *)
(* different kinds can be compared.  A property that an object does not    *)
(* have reads as Undef.                                                    *)
(***************************************************************************)
Undef == [k |-> "undefined"]
Null == [k |-> "null"]
Str(s) == [k |-> "string", s |-> s]
Num(n) == [k |-> "number", n |-> n]
Bool(b) == [k |-> "boolean", b |-> b]
Arr(a) == [k |-> "array", a |-> a]
Obj(o) == [k |-> "object", o |-> o]
\* admin.firestore.Timestamp: an object with a toDate() method
Timestamp(ms) == [k |-> "Timestamp", ms |-> ms]
\* Date.prototype.toISOString(): the instant formatted as a string
ToISOString(ms) == [k |-> "string", iso |-> ms]

\* ToBoolean: undefined, null, "", 0 and false are falsy, everything else truthy
Truthy(v) ==
  CASE v.k = "undefined" -> FALSE
    [] v.k = "null" -> FALSE
    [] v.k = "boolean" -> v.b
    [] v.k = "number" -> v.n # 0
    [] v.k = "string" -> IF "s" \in DOMAIN v THEN v.s # "" ELSE TRUE
    [] OTHER -> TRUE

\* a ?? b: only undefined and null give way to b
NullishOr(a, b) == IF a.k \in {"undefined", "null"} THEN b ELSE a

\* a || b
Or(a, b) == IF Truthy(a) THEN a ELSE b
\* a && b
And(a, b) == IF Truthy(a) THEN b ELSE a
\* Array.isArray(v)
IsArray(v) == Bool(v.k = "array")
\* v?.f (and v.f where v is known to be an object)
Get(v, f) == IF v.k = "object" /\ f \in DOMAIN v.o THEN v.o[f] ELSE Undef
\* v[0] of an array
First(v) == IF v.k = "array" /\ Len(v.a) > 0 THEN v.a[1] ELSE Undef

RECURSIVE JoinFrom(_, _)
JoinFrom(a, i) ==
  IF i > Len(a) THEN ""
  ELSE IF i = Len(a) THEN a[i].s
  ELSE a[i].s \o "," \o JoinFrom(a, i + 1)
\* Array.prototype.join(",") of an array of strings
Join(v) == Str(JoinFrom(v.a, 1))

\* whether v?.toDate() throws: v is neither nullish nor a Timestamp
ToDateThrows(v) == v.k \notin {"undefined", "null", "Timestamp"}

(***************************************************************************)
(* prepareSupabaseData                                                     *)
(***************************************************************************)
Columns ==
  {"firestore_id", "short_id", "timestamp", "last_updated",
   "device_type", "user_agent", "ip_address", "referrer", "influencer_id",
   "source_type", "qr_identifier", "qr_code_id",
   "city_name", "country_name", "latitude", "longitude", "time_zone",
   "accuracy_radius", "maxmind_queries_remaining", "postal_code",
   "state_iso_code", "state_name",
   "name", "short_link", "link_long_url", "link_type", "page_type",
   "link_action_type", "link_site_name", "site_plain_name", "link_tags",
   "qr_code_url", "link_created_at", "link_created_by_user_id",
   "link_active_flag", "link_firestore_doc_id",
   "project_id", "project_name",
   "campaign_id", "campaign_name", "campaign_name_from_link",
   "utm_parameters",
   "product_id", "product_name", "product_brand", "product_category",
   "product_upc", "retailer_name", "product_price", "link_value",
   "etl_processed_at"}

\* a coalescing that prefers the lowercase field
CoalesceCityLowercaseFirst(geoipData) ==
  Or(Get(geoipData, "city"), Get(geoipData, "cityName"))
\* a coalescing that prefers the flat region
CoalesceStateNameRegionFirst(geoipData) ==
  Or(Get(geoipData, "region"),
     And(IsArray(Get(geoipData, "state")),
         Get(First(Get(geoipData, "state")), "name")))

\* the geo columns coalesced from geoipData
CoalesceCity(geoipData) == Or(Get(geoipData, "cityName"), Get(geoipData, "city"))
CoalesceCountry(geoipData) ==
  Or(Get(geoipData, "countryName"), Get(geoipData, "country"))
CoalescePostal(geoipData) ==
  Or(Get(geoipData, "postalCode"), Get(geoipData, "postal"))
CoalesceStateIso(geoipData) ==
  Or(And(IsArray(Get(geoipData, "state")),
         Get(First(Get(geoipData, "state")), "isoCode")),
     Null)
CoalesceStateName(geoipData) ==
  Or(And(IsArray(Get(geoipData, "state")),
         Get(First(Get(geoipData, "state")), "name")),
     Get(geoipData, "region"))

\* a name that prefers the click's own name
finalNameClickFirst(link, clickData) ==
  Or(Or(Get(clickData, "name"), Get(link, "name")), Str("Untitled"))
\* a type that prefers the click's own type fields
finalLinkTypeClickFirst(link, clickData) ==
  Or(Or(Or(Get(clickData, "linkType"), Get(clickData, "pagetype")),
        Get(link, "pageType")),
     Str("Unknown"))

\* the consolidated name and link type (lines 332, 342-343)
finalName(link, clickData) ==
  Or(Or(Get(link, "name"), Get(clickData, "name")), Str("Untitled"))
finalLinkType(link, clickData) ==
  Or(Or(Or(Get(link, "pageType"), Get(clickData, "linkType")),
        Get(clickData, "pagetype")),
     Str("Unknown"))

\* whether prepareSupabaseData throws a TypeError on these inputs
prepareThrows(clickData, enrichedData) ==
  \/ Truthy(Get(clickData, "timestamp")) /\ ToDateThrows(Get(clickData, "timestamp"))
  \/ ToDateThrows(Get(Get(enrichedData.link, "created"), "timestamp"))

\* the object prepareSupabaseData returns; t1 and t2 are what its two
\* new Date() calls read (timestamp fallback, last_updated)
prepareSupabaseData(clickData, enrichedData, firestoreClickId, t1, t2) ==
  LET link == enrichedData.link
      product == enrichedData.product
      productPrice == enrichedData.productPrice
      linkValue == enrichedData.linkValue
      linkUtmParameters == enrichedData.linkUtmParameters
      geoipData == Get(clickData, "geoipData")
      location == Get(geoipData, "location")
      finalProjectId ==
        Or(Or(Get(Get(link, "projectDetails"), "projectId"),
              Get(clickData, "projectId")),
           Get(Get(clickData, "projectDetails"), "projectId"))
      finalProjectName ==
        Or(Get(Get(link, "projectDetails"), "projectName"),
           Get(Get(clickData, "projectDetails"), "projectName"))
      campaignNameFromClick == Get(clickData, "campaign_name")
      campaignNameFromLinkUtm ==
        Or(Get(linkUtmParameters, "campaign"), Get(linkUtmParameters, "utm_campaign"))
      finalCampaignName == Or(campaignNameFromClick, campaignNameFromLinkUtm)
      linkTagsString ==
        IF Truthy(And(Get(link, "linkTags"), IsArray(Get(link, "linkTags"))))
        THEN Join(Get(link, "linkTags"))
        ELSE IF Truthy(IsArray(Get(clickData, "linkTags")))
        THEN Join(Get(clickData, "linkTags"))
        ELSE Null
      createdTs == Get(Get(link, "created"), "timestamp")
  IN [firestore_id |-> Str(firestoreClickId),
      short_id |-> Get(clickData, "shortId"),
      timestamp |->
        IF Truthy(Get(clickData, "timestamp"))
        THEN ToISOString(Get(clickData, "timestamp").ms)
        ELSE ToISOString(t1),
      last_updated |-> ToISOString(t2),
      device_type |-> Get(clickData, "deviceType"),
      user_agent |-> Get(clickData, "userAgent"),
      ip_address |-> Get(clickData, "ipAddress"),
      referrer |-> Get(clickData, "referrer"),
      influencer_id |-> Get(clickData, "influencerId"),
      source_type |-> Or(Get(clickData, "sourceType"), Str("link")),
      qr_identifier |-> Or(Get(clickData, "qrIdentifier"), Null),
      qr_code_id |-> Or(Get(clickData, "qrCodeId"), Null),
      city_name |-> CoalesceCity(geoipData),
      country_name |-> CoalesceCountry(geoipData),
      latitude |-> Get(location, "latitude"),
      longitude |-> Get(location, "longitude"),
      time_zone |-> Get(location, "timeZone"),
      accuracy_radius |-> Get(location, "accuracyRadius"),
      maxmind_queries_remaining |-> Get(geoipData, "maxmindQueriesRemaining"),
      postal_code |-> CoalescePostal(geoipData),
      state_iso_code |-> CoalesceStateIso(geoipData),
      state_name |-> CoalesceStateName(geoipData),
      name |-> finalName(link, clickData),
      short_link |-> Or(Get(link, "shortLink"), Get(clickData, "shortLink")),
      link_long_url |-> Get(link, "longLink"),
      link_type |-> finalLinkType(link, clickData),
      page_type |-> finalLinkType(link, clickData),
      link_action_type |-> finalLinkType(link, clickData),
      link_site_name |->
        Or(Or(Get(link, "siteplainname"), Get(clickData, "linkSiteName")),
           Get(clickData, "siteplainname")),
      site_plain_name |->
        Or(Or(Get(link, "siteplainname"), Get(clickData, "siteplainname")),
           Get(clickData, "linkSiteName")),
      link_tags |-> linkTagsString,
      qr_code_url |->
        Or(Or(Get(link, "qrCode"), Get(link, "linkqrcodeimgurl")),
           Get(clickData, "qrCodeUrl")),
      link_created_at |->
        IF createdTs.k = "Timestamp" THEN ToISOString(createdTs.ms) ELSE Undef,
      link_created_by_user_id |-> Get(Get(link, "created"), "userId"),
      link_active_flag |-> Get(link, "linkactiveflag"),
      link_firestore_doc_id |-> Get(link, "firestoreDocId"),
      project_id |-> finalProjectId,
      project_name |-> finalProjectName,
      campaign_id |-> Get(clickData, "campaignId"),
      campaign_name |-> finalCampaignName,
      campaign_name_from_link |-> campaignNameFromLinkUtm,
      utm_parameters |-> Or(linkUtmParameters, Null),
      product_id |->
        Or(Or(Get(product, "docId"), Get(link, "productId")),
           Get(clickData, "productId")),
      product_name |-> Get(product, "name"),
      product_brand |-> Get(product, "brand"),
      product_category |-> Get(product, "category"),
      product_upc |-> Get(product, "upc"),
      retailer_name |-> Get(link, "siteRetailer"),
      product_price |-> productPrice,
      link_value |-> linkValue,
      etl_processed_at |-> Null]


(***************************************************************************)
(* Bounds and the documents the model draws from                           *)
(***************************************************************************)
\* trigger events delivered (invocations of syncClickToSupabase)
MaxInvocations == 2
\* the largest instant the clock reaches
MaxClock == 1

ClickIds == {"c1", "c2"}

GeoMixed ==
  Obj([cityName |-> Str("Chicago"), city |-> Str("Old Chicago Name"),
       countryName |-> Str("United States"), country |-> Str("USA"),
       postalCode |-> Str("60601"), postal |-> Str("60000"),
       state |-> Arr(<<Obj([isoCode |-> Str("IL"), name |-> Str("Illinois")])>>),
       region |-> Str("Midwest"),
       location |-> Obj([latitude |-> Num(41), longitude |-> Num(-87)])])
GeoLower == Obj([city |-> Str("LA"), country |-> Str("US")])

\* a QR scan of link abc123, every click field present
ClickFull ==
  Obj([shortId |-> Str("abc123"), timestamp |-> Timestamp(5),
       deviceType |-> Str("mobile"), userAgent |-> Str("UA"),
       ipAddress |-> Str("1.2.3.4"), referrer |-> Str("ref"),
       name |-> Str("ClickName"), linkType |-> Str("ClickType"),
       shortLink |-> Str("https://s/abc123"),
       sourceType |-> Str("qr"), qrIdentifier |-> Str("black-friday-2025"),
       qrCodeId |-> Str("qr1"), geoipData |-> GeoMixed])
\* a click with no shortId and lowercase geo fields
ClickNoShortId == Obj([deviceType |-> Str("desktop"), geoipData |-> GeoLower])
\* a click of a short code no link carries; no timestamp, no geo
ClickNoLink == Obj([shortId |-> Str("zzz"), name |-> Str("ClickName")])
\* a click of the link that references no product
ClickNoProduct == Obj([shortId |-> Str("nop"), geoipData |-> GeoLower])
\* a click of the link whose product does not exist
ClickMissingProduct == Obj([shortId |-> Str("mis"), timestamp |-> Timestamp(7)])
\* a click of the link that carries neither a linkValue nor a productId
ClickNoValue == Obj([shortId |-> Str("nov")])
\* a click whose timestamp was stored as a string
ClickBadTimestamp == Obj([shortId |-> Str("abc123"), timestamp |-> Str("2024-01-15")])

ClickDocs ==
  {ClickFull, ClickNoShortId, ClickNoLink, ClickNoProduct, ClickMissingProduct,
   ClickNoValue, ClickBadTimestamp}

LinkFull ==
  Obj([urlShortCode |-> Str("abc123"), name |-> Str("X"), linkValue |-> Num(42),
       pageType |-> Str("ATC"), longLink |-> Str("https://long"),
       shortLink |-> Str("https://s/abc123"), linkTags |-> Arr(<<Str("a"), Str("b")>>),
       created |-> Obj([timestamp |-> Timestamp(3), userId |-> Str("u1")]),
       siteRetailer |-> Str("Walmart"), siteplainname |-> Str("walmart"),
       qrCode |-> Str("https://qr"), linkactiveflag |-> Bool(TRUE),
       utmParameters |-> Obj([utm_campaign |-> Str("spring")]),
       productId |-> Str("p1"),
       projectDetails |-> Obj([projectId |-> Str("pr1"), projectName |-> Str("P")])])
LinkNoProduct ==
  Obj([urlShortCode |-> Str("nop"), name |-> Str("Y"), linkValue |-> Num(42)])
LinkMissingProduct ==
  Obj([urlShortCode |-> Str("mis"), linkValue |-> Num(7), productId |-> Str("p9")])
LinkNoValue == Obj([urlShortCode |-> Str("nov"), name |-> Str("Z")])

\* the links collection, in document-id order
LinksCollection ==
  <<[id |-> "L1", data |-> LinkFull], [id |-> "L2", data |-> LinkNoProduct],
    [id |-> "L3", data |-> LinkMissingProduct], [id |-> "L4", data |-> LinkNoValue]>>

ProductOne ==
  Obj([name |-> Str("Soap"), productPrice |-> Num(10), brand |-> Str("B"),
       category |-> Str("C"), upc |-> Str("012")])
ProductIds == {"p1", "p9"}
\* the products collection: p1 exists, p9 does not
ProductsCollection == [p \in ProductIds |-> IF p = "p1" THEN ProductOne ELSE Undef]

(***************************************************************************)
(* State                                                                   *)
(***************************************************************************)
VARIABLES
  clicks,       \* Firestore clicks collection: click id -> document or Undef
  links,        \* Firestore links collection
  products,     \* Firestore products collection: product id -> document or Undef
  link_clicks,  \* the Supabase table: a set of rows
  invocations,  \* the invocations of syncClickToSupabase, in trigger order
  now,          \* the clock new Date() reads
  upserts,      \* the upserts the table applied, in order
  pureClick,    \* prepareSupabaseData taken alone: its clickData,
  pureEnriched, \* its enrichedData,
  pureOut,      \* and the object it returned (Undef before the call)
  exportReq,    \* exportAnalytics: the request being handled
  exportPc,     \* where its handler is: "idle", "query" or "done"
  exportRes,    \* the response it sent: status (0 before) and error text
  bqQueries,    \* the BigQuery queries it executed
  qrCodes,      \* Firestore qrCodes collection: identifier -> document or Undef
  qrRequests,   \* the createAdditionalQRCode requests, in arrival order
  pages,        \* Firestore newDynamicPages: doc id -> document or Undef
  draftRuns,    \* the invocations of handleDraftChanges, in trigger order
  pageUpdates,  \* the update() calls handleDraftChanges made, in order
  changeRuns,   \* the invocations of firestoreToBigQuery, in trigger order
  changelog     \* BigQuery all_collections_changelog: created?, rows

sysVars == <<clicks, links, products, link_clicks, invocations, now, upserts>>
pureVars == <<pureClick, pureEnriched, pureOut>>
exportVars == <<exportReq, exportPc, exportRes, bqQueries>>
qrVars == <<qrCodes, qrRequests>>
draftVars == <<pages, draftRuns, pageUpdates>>
bqVars == <<changeRuns, changelog>>
\* the state of the other functions, which syncClickToSupabase never touches
otherVars == <<exportVars, qrVars, draftVars, bqVars>>
vars == <<sysVars, pureVars, otherVars>>

\* what getLinkAndProductData starts from (lines 232-236)
EnrichedDefaults ==
  [link |-> Undef, product |-> Undef, productPrice |-> Num(0),
   linkValue |-> Num(0), linkUtmParameters |-> Undef]

\* a trigger event handed to a new instance of the handler
NewInvocation(clickId, after) ==
  [clickId |-> clickId, after |-> after, pc |-> "start",
   enrichedData |-> EnrichedDefaults, supabaseData |-> Undef,
   result |-> "running", errors |-> {},
   linkQueries |-> 0, productGets |-> 0, upsertCalls |-> 0]

\* a string given character by character, for the code that looks inside it
Text(chars) == [k |-> "string", chars |-> chars]
\* the string of n times the character c
Repeat(c, n) == [i \in 1..n |-> c]

\* identifiers a createAdditionalQRCode request may carry: well formed
QrIdsValid ==
  {<<"a", "b", "c">>, <<"a", "-", "b">>, <<"a", "p", "i", "s">>,
   <<"s", "t", "o", "r", "e", "-", "1", "2", "3">>,
   <<"2", "0", "2", "5">>, Repeat("a", 50)}
\* too short or too long
QrIdsBadLength == {<<"a", "b">>, <<"w">>, <<"q", "r">>, Repeat("a", 51)}
\* a character outside a-z, 0-9 and the hyphen
QrIdsBadChars ==
  {<<"A", "b", "c">>, <<"a", "b", "_", "c">>, <<"a", "b", " ", "c">>,
   <<"a", "b", ".", "c">>, <<"a", "b", "c", "\n">>}
\* a double, leading or trailing hyphen
QrIdsBadHyphens ==
  {<<"a", "-", "-", "b">>, <<"-", "a", "b", "c">>, <<"a", "b", "c", "-">>,
   <<"-", "-", "-">>}
\* the reserved words of three characters or more
QrIdsReserved ==
  {<<"a", "p", "i">>, <<"a", "d", "m", "i", "n">>, <<"l", "i", "n", "k">>,
   <<"t", "e", "s", "t">>, <<"a", "p", "p">>, <<"w", "w", "w">>}
QrIdentifiers ==
  QrIdsValid \cup QrIdsBadLength \cup QrIdsBadChars \cup QrIdsBadHyphens
    \cup QrIdsReserved
\* the document ids of the qrCodes collection
QrDocIds == QrIdentifiers

PageIds == {"pg1", "pg2"}
\* a page that is published and has no draft changes
PagePublished == Obj([publishingStatus |-> Str("published"), title |-> Str("t0")])

\* exportAnalytics has no request in hand
ExportInit ==
  /\ exportReq = Null
  /\ exportPc = "idle"
  /\ exportRes = [status |-> 0, error |-> ""]
  /\ bqQueries = 0

\* the qrCodes collection is empty and no request has arrived
QrInit ==
  /\ qrCodes = [q \in QrDocIds |-> Undef]
  /\ qrRequests = <<>>

\* the pages exist, published; nothing has updated them yet
DraftInit ==
  /\ pages = [d \in PageIds |-> PagePublished]
  /\ draftRuns = <<>>
  /\ pageUpdates = <<>>

\* no change event yet; the changelog table is created by the first insert
BqInit ==
  /\ changeRuns = <<>>
  /\ changelog = [exists |-> FALSE, rows |-> <<>>]

SysInit ==
  /\ clicks = [c \in ClickIds |-> Undef]
  /\ links = LinksCollection
  /\ products = ProductsCollection
  /\ link_clicks = {}
  /\ invocations = <<>>
  /\ now = 0
  /\ upserts = <<>>
  /\ ExportInit
  /\ QrInit
  /\ DraftInit
  /\ BqInit

Init ==
  /\ SysInit
  /\ pureClick = Undef
  /\ pureEnriched = EnrichedDefaults
  /\ pureOut = Undef

(***************************************************************************)
(* Trigger events: writes to clicks/{clickId}                              *)
(***************************************************************************)
\* a create or update of the click document
WriteClick(c, d) ==
  /\ Len(invocations) < MaxInvocations
  /\ clicks' = [clicks EXCEPT ![c] = d]
  /\ invocations' = Append(invocations, NewInvocation(c, d))
  /\ UNCHANGED <<links, products, link_clicks, now, upserts, pureVars, otherVars>>

\* a delete of the click document: the event's after-snapshot does not exist
DeleteClick(c) ==
  /\ Len(invocations) < MaxInvocations
  /\ clicks[c] # Undef
  /\ clicks' = [clicks EXCEPT ![c] = Undef]
  /\ invocations' = Append(invocations, NewInvocation(c, Undef))
  /\ UNCHANGED <<links, products, link_clicks, now, upserts, pureVars, otherVars>>

\* at-least-once delivery: the host delivers an event again
Redeliver(i) ==
  /\ Len(invocations) < MaxInvocations
  /\ invocations' =
       Append(invocations, NewInvocation(invocations[i].clickId, invocations[i].after))
  /\ UNCHANGED <<clicks, links, products, link_clicks, now, upserts, pureVars, otherVars>>


(***************************************************************************)
(* syncClickToSupabase, one action per await                               *)
(***************************************************************************)
\* a catch block that rethrows to the host
HandlerRethrows == "throw"
\* what the catch block of the handler hands to the host (line 209)
HandlerCatch == "null"

\* the invocation with some fields set
With(i, changes) ==
  [invocations EXCEPT ![i] = [f \in DOMAIN @ |->
     IF f \in DOMAIN changes THEN changes[f] ELSE @[f]]]

\* a handler without the shortId check of lines 238-244
BeginWithoutShortIdCheck(i) ==
  LET v == invocations[i] IN
  /\ v.pc = "start"
  /\ invocations' =
       IF v.after = Undef
       THEN [invocations EXCEPT ![i].pc = "done", ![i].result = "null"]
       ELSE [invocations EXCEPT ![i].pc = "links"]
  /\ UNCHANGED <<clicks, links, products, link_clicks, now, upserts, pureVars, otherVars>>

\* a handler without the deletion check of lines 150-156
BeginWithoutDeletionCheck(i) ==
  LET v == invocations[i] IN
  /\ v.pc = "start"
  /\ invocations' =
       IF ~Truthy(Get(v.after, "shortId"))
       THEN [invocations EXCEPT ![i].pc = "prepare"]
       ELSE [invocations EXCEPT ![i].pc = "links"]
  /\ UNCHANGED <<clicks, links, products, link_clicks, now, upserts, pureVars, otherVars>>

\* lines 147-163 and 238-244: the deletion check, then the shortId check of
\* getLinkAndProductData
Begin(i) ==
  LET v == invocations[i] IN
  /\ v.pc = "start"
  /\ invocations' =
       IF v.after = Undef
       THEN With(i, [pc |-> "done", result |-> "null"])
       ELSE IF ~Truthy(Get(v.after, "shortId"))
       THEN With(i, [pc |-> "prepare"])
       ELSE With(i, [pc |-> "links"])
  /\ UNCHANGED <<clicks, links, products, link_clicks, now, upserts, pureVars, otherVars>>

\* .where("urlShortCode", "==", shortId).limit(1): the first matching document
MatchingLinks(shortId) ==
  {n \in 1..Len(links) : Get(links[n].data, "urlShortCode") = shortId}
FirstLink(shortId) ==
  LET n == CHOOSE m \in MatchingLinks(shortId) :
             \A o \in MatchingLinks(shortId) : m <= o
  IN Obj(links[n].data.o @@ [firestoreDocId |-> Str(links[n].id)])

\* a links query that is not filtered by urlShortCode
AfterLinksQueryUnfiltered(shortId) ==
  LET link == Obj(links[1].data.o @@ [firestoreDocId |-> Str(links[1].id)])
      linkValue == Or(Get(link, "linkValue"), Num(0))
  IN [link |-> link, product |-> Undef,
      productPrice |-> IF Truthy(Get(link, "productId")) THEN Num(0) ELSE linkValue,
      linkValue |-> linkValue,
      linkUtmParameters |-> Get(link, "utmParameters")]

\* the enrichment once the links query has answered (lines 254-289), up to
\* the product read
AfterLinksQuery(shortId) ==
  IF MatchingLinks(shortId) = {} THEN EnrichedDefaults
  ELSE LET link == FirstLink(shortId)
           linkValue == Or(Get(link, "linkValue"), Num(0))
       IN [link |-> link, product |-> Undef,
           productPrice |-> IF Truthy(Get(link, "productId")) THEN Num(0) ELSE linkValue,
           linkValue |-> linkValue,
           linkUtmParameters |-> Get(link, "utmParameters")]

\* a links query whose error is not caught by getLinkAndProductData: it
\* reaches the handler's catch block, which returns without an upsert
QueryLinksErrorPropagates(i) ==
  LET v == invocations[i]
      e == AfterLinksQuery(Get(v.after, "shortId"))
  IN
  /\ v.pc = "links"
  /\ \E ok \in BOOLEAN :
       invocations' =
         IF ~ok
         THEN With(i, [pc |-> "done", result |-> HandlerCatch,
                       linkQueries |-> v.linkQueries + 1,
                       errors |-> v.errors \cup {"links"}])
         ELSE With(i, [pc |-> IF Truthy(Get(e.link, "productId"))
                              THEN "product" ELSE "prepare",
                       linkQueries |-> v.linkQueries + 1,
                       enrichedData |-> e])
  /\ UNCHANGED <<clicks, links, products, link_clicks, now, upserts, pureVars, otherVars>>

\* lines 247-261 and 281-297: the links query; it answers or throws
QueryLinks(i) ==
  LET v == invocations[i]
      e == AfterLinksQuery(Get(v.after, "shortId"))
  IN
  /\ v.pc = "links"
  /\ \E ok \in BOOLEAN :
       invocations' =
         IF ~ok
         THEN With(i, [pc |-> "prepare", linkQueries |-> v.linkQueries + 1,
                       errors |-> v.errors \cup {"links"}])
         ELSE With(i, [pc |-> IF Truthy(Get(e.link, "productId"))
                              THEN "product" ELSE "prepare",
                       linkQueries |-> v.linkQueries + 1,
                       enrichedData |-> e])
  /\ UNCHANGED <<clicks, links, products, link_clicks, now, upserts, pureVars, otherVars>>

\* a product read without the fallback of line 279
AfterProductGetNoFallback(e) ==
  LET productId == Get(e.link, "productId").s
      snapshot == products[productId]
  IN IF snapshot # Undef
     THEN [e EXCEPT !.product = Obj(snapshot.o @@ [docId |-> Str(productId)]),
                    !.productPrice = Or(Get(snapshot, "productPrice"), Num(0))]
     ELSE e

\* the enrichment once the product read has answered (lines 269-280)
AfterProductGet(e) ==
  LET productId == Get(e.link, "productId").s
      snapshot == products[productId]
  IN IF snapshot # Undef
     THEN LET product ==
                IF Truthy(Get(snapshot, "docId")) THEN snapshot
                ELSE Obj(snapshot.o @@ [docId |-> Str(productId)])
          IN [e EXCEPT !.product = product,
                       !.productPrice = Or(Get(product, "productPrice"), Num(0))]
     ELSE [e EXCEPT !.productPrice = e.linkValue]

\* lines 262-280 and 290-297: the product read; it answers or throws
GetProduct(i) ==
  LET v == invocations[i] IN
  /\ v.pc = "product"
  /\ \E ok \in BOOLEAN :
       invocations' =
         IF ~ok
         THEN With(i, [pc |-> "prepare", productGets |-> v.productGets + 1,
                       errors |-> v.errors \cup {"products"}])
         ELSE With(i, [pc |-> "prepare", productGets |-> v.productGets + 1,
                       enrichedData |-> AfterProductGet(v.enrichedData)])
  /\ UNCHANGED <<clicks, links, products, link_clicks, now, upserts, pureVars, otherVars>>

\* lines 170-179: prepareSupabaseData; a TypeError goes to the handler's catch
Prepare(i) ==
  LET v == invocations[i] IN
  /\ v.pc = "prepare"
  /\ IF prepareThrows(v.after, v.enrichedData)
     THEN /\ invocations' = With(i, [pc |-> "done", result |-> HandlerCatch,
                                     errors |-> v.errors \cup {"prepare"}])
          /\ now' = now
     ELSE \E t1 \in now..MaxClock : \E t2 \in t1..MaxClock :
            /\ invocations' =
                 With(i, [pc |-> "upsert",
                          supabaseData |->
                            prepareSupabaseData(v.after, v.enrichedData, v.clickId, t1, t2)])
            /\ now' = t2
  /\ UNCHANGED <<clicks, links, products, link_clicks, upserts, pureVars, otherVars>>

\* JSON.stringify of the request body: properties whose value is undefined
\* are left out
JsonBody(data) == [c \in {d \in DOMAIN data : data[d] # Undef} |-> data[c]]

\* an insert instead of an upsert
Inserted(table, body) ==
  table \cup {[c \in Columns |-> IF c \in DOMAIN body THEN body[c] ELSE Null]}

\* an upsert whose conflict target is short_id instead of firestore_id
UpsertedOnShortId(table, body) ==
  IF \E r \in table : "short_id" \in DOMAIN body /\ r.short_id = body.short_id
  THEN {IF r.short_id = body.short_id
        THEN [c \in Columns |-> IF c \in DOMAIN body THEN body[c] ELSE r[c]]
        ELSE r : r \in table}
  ELSE table \cup {[c \in Columns |-> IF c \in DOMAIN body THEN body[c] ELSE Null]}

\* the table after INSERT ... ON CONFLICT (firestore_id) DO UPDATE of the
\* columns the body carries; a column the body lacks keeps its value in an
\* existing row and takes its default, NULL, in a new one
Upserted(table, body) ==
  IF \E r \in table : r.firestore_id = body.firestore_id
  THEN {IF r.firestore_id = body.firestore_id
        THEN [c \in Columns |-> IF c \in DOMAIN body THEN body[c] ELSE r[c]]
        ELSE r : r \in table}
  ELSE table \cup {[c \in Columns |-> IF c \in DOMAIN body THEN body[c] ELSE Null]}

\* the rows of a click
RowsOf(table, c) == {r \in table : r.firestore_id = Str(c)}

\* an upsert after which the handler marks the click document as synced
UpsertAndMarkClick(i) ==
  LET v == invocations[i] IN
  /\ v.pc = "upsert"
  /\ \E ok \in BOOLEAN :
       IF ok
       THEN /\ link_clicks' = Upserted(link_clicks, JsonBody(v.supabaseData))
            /\ upserts' = Append(upserts,
                 [inv |-> i, before |-> RowsOf(link_clicks, v.clickId),
                  after |-> RowsOf(link_clicks', v.clickId)])
            /\ invocations' = With(i, [pc |-> "done", result |-> "null",
                                       upsertCalls |-> v.upsertCalls + 1])
            /\ clicks' = [clicks EXCEPT ![v.clickId] =
                            Obj(v.after.o @@ [synced |-> Bool(TRUE)])]
       ELSE /\ invocations' = With(i, [pc |-> "done", result |-> HandlerCatch,
                                       upsertCalls |-> v.upsertCalls + 1,
                                       errors |-> v.errors \cup {"upsert"}])
            /\ UNCHANGED <<link_clicks, upserts, clicks, pureVars, otherVars>>
  /\ UNCHANGED <<links, products, now, pureVars, otherVars>>

\* an upsert that is issued again after an error result
UpsertWithRetry(i) ==
  LET v == invocations[i] IN
  /\ v.pc = "upsert"
  /\ \E ok \in BOOLEAN :
       IF ok
       THEN /\ link_clicks' = Upserted(link_clicks, JsonBody(v.supabaseData))
            /\ upserts' = Append(upserts,
                 [inv |-> i, before |-> RowsOf(link_clicks, v.clickId),
                  after |-> RowsOf(link_clicks', v.clickId)])
            /\ invocations' = With(i, [pc |-> "done", result |-> "null",
                                       upsertCalls |-> v.upsertCalls + 1])
       ELSE /\ invocations' = With(i, [upsertCalls |-> v.upsertCalls + 1,
                                       errors |-> v.errors \cup {"upsert"}])
            /\ UNCHANGED <<link_clicks, upserts, pureVars, otherVars>>
  /\ UNCHANGED <<clicks, links, products, now, pureVars, otherVars>>

\* lines 181-210: the upsert; it is applied, or it answers an error, which
\* the handler throws and its own catch block catches
Upsert(i) ==
  LET v == invocations[i] IN
  /\ v.pc = "upsert"
  /\ \E ok \in BOOLEAN :
       IF ok
       THEN /\ link_clicks' = Upserted(link_clicks, JsonBody(v.supabaseData))
            /\ upserts' = Append(upserts,
                 [inv |-> i, before |-> RowsOf(link_clicks, v.clickId),
                  after |-> RowsOf(link_clicks', v.clickId)])
            /\ invocations' = With(i, [pc |-> "done", result |-> "null",
                                       upsertCalls |-> v.upsertCalls + 1])
       ELSE /\ invocations' = With(i, [pc |-> "done", result |-> HandlerCatch,
                                       upsertCalls |-> v.upsertCalls + 1,
                                       errors |-> v.errors \cup {"upsert"}])
            /\ UNCHANGED <<link_clicks, upserts, pureVars, otherVars>>
  /\ UNCHANGED <<clicks, links, products, now, pureVars, otherVars>>

Next ==
  \/ \E c \in ClickIds : \E d \in ClickDocs : WriteClick(c, d)
  \/ \E c \in ClickIds : DeleteClick(c)
  \/ \E i \in 1..Len(invocations) : Redeliver(i)
  \/ \E i \in 1..Len(invocations) : Begin(i)
  \/ \E i \in 1..Len(invocations) : QueryLinks(i)
  \/ \E i \in 1..Len(invocations) : GetProduct(i)
  \/ \E i \in 1..Len(invocations) : Prepare(i)
  \/ \E i \in 1..Len(invocations) : Upsert(i)

Spec == Init /\ [][Next]_vars


(***************************************************************************)
(* Properties of syncClickToSupabase                                       *)
(***************************************************************************)
Invs == 1..Len(invocations)
\* the invocations whose after-snapshot exists
Live(i) == invocations[i].after # Undef
\* the click an upsert was for
ClickOf(u) == invocations[u.inv].clickId

\* C2: after any sequence or interleaving of invocations the table holds at
\* most one row per firestore_id
C2_OneRowPerClick ==
  \A c \in ClickIds : Cardinality(RowsOf(link_clicks, c)) <= 1

\* two different invocations have upserted the same click, the second one
\* started before the first had finished its upsert
C2_Witness ==
  /\ Len(upserts) = 2
  /\ upserts[1].inv = 2 /\ upserts[2].inv = 1
  /\ ClickOf(upserts[1]) = ClickOf(upserts[2])
  /\ invocations[1].after # invocations[2].after
  /\ Cardinality(RowsOf(link_clicks, ClickOf(upserts[1]))) = 1

\* C4: an invocation whose after-snapshot exists never throws to the host:
\* whatever failed (links query, product read, preparation, upsert), it
\* ends returning null
C4_FailuresReturnNull ==
  \A i \in Invs :
    Live(i) =>
      /\ invocations[i].result # "throw"
      /\ invocations[i].pc = "done" => invocations[i].result = "null"

\* failures at all four places have been caught, and the invocations ended
C4_Witness ==
  /\ Len(invocations) = 2
  /\ invocations[1].pc = "done" /\ invocations[1].errors = {"links", "upsert"}
  /\ invocations[2].pc = "done" /\ invocations[2].errors = {"products", "prepare"}

\* C5: an invocation for a deleted click ends in one step that returns null,
\* issues no links query, no product read and no upsert, and leaves the
\* table as it is
C5_DeletionShortCircuit ==
  [][\A i \in Invs :
       (~Live(i) /\ invocations[i].pc = "start" /\ invocations'[i].pc # "start") =>
         /\ invocations'[i].pc = "done"
         /\ invocations'[i].result = "null"
         /\ invocations'[i].linkQueries = 0
         /\ invocations'[i].productGets = 0
         /\ invocations'[i].upsertCalls = 0
         /\ link_clicks' = link_clicks
         /\ upserts' = upserts]_vars

\* the click was synced, then deleted, and the invocation for the deletion
\* has ended: the row is still there
C5_Witness ==
  \E i \in Invs :
    /\ ~Live(i) /\ invocations[i].pc = "done"
    /\ RowsOf(link_clicks, invocations[i].clickId) # {}
    /\ clicks[invocations[i].clickId] = Undef


\* upserts k and l are two successive upserts of one click
Successive(k, l) ==
  /\ k < l
  /\ ClickOf(upserts[k]) = ClickOf(upserts[l])
  /\ \A m \in (k + 1)..(l - 1) : ClickOf(upserts[m]) # ClickOf(upserts[k])
\* invocations a and b processed the same event content and read the same
\* link and product
SameContent(a, b) ==
  /\ invocations[a].clickId = invocations[b].clickId
  /\ invocations[a].after = invocations[b].after
  /\ invocations[a].enrichedData = invocations[b].enrichedData
TheRow(rows) == CHOOSE r \in rows : TRUE

\* C1 as stated: two successive runs on the same content leave one row, and
\* every field of it is the same after the second run as after the first
C1_AsStated ==
  \A k, l \in 1..Len(upserts) :
    (Successive(k, l) /\ SameContent(upserts[k].inv, upserts[l].inv)) =>
      /\ Cardinality(upserts[l].after) = 1
      /\ upserts[l].after = upserts[k].after

\* C1 amended: two successive runs on the same content leave one row; every
\* column other than last_updated is the same after the second run as after
\* the first, but for timestamp when the click carries none
C1_Idempotent ==
  \A k, l \in 1..Len(upserts) :
    (Successive(k, l) /\ SameContent(upserts[k].inv, upserts[l].inv)) =>
      /\ Cardinality(upserts[k].after) = 1
      /\ Cardinality(upserts[l].after) = 1
      /\ \A c \in Columns \ {"last_updated"} :
           \/ c = "timestamp"
                /\ ~Truthy(Get(invocations[upserts[l].inv].after, "timestamp"))
           \/ TheRow(upserts[l].after)[c] = TheRow(upserts[k].after)[c]

\* the same content was processed twice, at different instants
C1_Witness ==
  \E k, l \in 1..Len(upserts) :
    /\ Successive(k, l) /\ SameContent(upserts[k].inv, upserts[l].inv)
    /\ Truthy(Get(invocations[upserts[l].inv].after, "timestamp"))
    /\ invocations[upserts[l].inv].enrichedData.product # Undef
    /\ TheRow(upserts[l].after).last_updated # TheRow(upserts[k].after).last_updated

\* the record an upsert wrote, as a full row: a property it lacks is NULL
AsRow(data) == [c \in Columns |-> IF data[c] = Undef THEN Null ELSE data[c]]

\* C3: after an upsert the row of the click equals the newly prepared
\* record in every column; no column keeps a value of the earlier row
C3_LastWriteWins ==
  \A k \in 1..Len(upserts) :
    upserts[k].after = {AsRow(invocations[upserts[k].inv].supabaseData)}

\* columns that only a Link or a Product supplies
LinkOnlyColumns ==
  {"link_long_url", "link_created_at", "link_created_by_user_id",
   "link_active_flag", "link_firestore_doc_id", "campaign_name_from_link",
   "product_name", "product_brand", "product_category", "product_upc",
   "retailer_name"}
\* the columns C6 names: name, link type, link URL, product, price, value
LinkProductColumns ==
  LinkOnlyColumns \cup
    {"name", "link_type", "page_type", "link_action_type", "product_price",
     "link_value"}
\* the invocations of a click that has no shortId
NoShortId(i) == Live(i) /\ ~Truthy(Get(invocations[i].after, "shortId"))
\* the upserts invocation i made
UpsertsOf(i) == {k \in 1..Len(upserts) : upserts[k].inv = i}

\* C6 as stated: the record of a click with no shortId has no value in any
\* link- or product-derived field
C6_AsStated ==
  \A i \in Invs :
    (NoShortId(i) /\ invocations[i].supabaseData # Undef) =>
      \A c \in LinkProductColumns : invocations[i].supabaseData[c] \in {Null, Undef}

\* C6 amended: a click with no shortId is processed without a throw and
\* without a links query or product read; one record is upserted; in it the
\* click fields are copied, name is the click's name or "Untitled", the type
\* fields are the click's type or "Unknown", product_price and link_value
\* are 0, and the fields only a Link or Product supplies have no value
\* (NULL in a row the upsert inserts)
C6_PartialEnrichment ==
  \A i \in Invs :
    NoShortId(i) =>
      LET v == invocations[i]
          p == v.supabaseData
          typ == Or(Get(v.after, "linkType"), Get(v.after, "pagetype"))
      IN /\ v.linkQueries = 0 /\ v.productGets = 0 /\ v.result # "throw"
         /\ v.pc \in {"start", "prepare", "upsert", "done"}
         /\ (v.pc = "done" /\ "prepare" \notin v.errors) => v.upsertCalls = 1
         /\ p # Undef =>
              /\ p.firestore_id = Str(v.clickId)
              /\ p.device_type = Get(v.after, "deviceType")
              /\ p.user_agent = Get(v.after, "userAgent")
              /\ p.ip_address = Get(v.after, "ipAddress")
              /\ p.referrer = Get(v.after, "referrer")
              /\ p.city_name = CoalesceCity(Get(v.after, "geoipData"))
              /\ p.name = (IF Truthy(Get(v.after, "name"))
                           THEN Get(v.after, "name") ELSE Str("Untitled"))
              /\ \A c \in {"link_type", "page_type", "link_action_type"} :
                   p[c] = (IF Truthy(typ) THEN typ ELSE Str("Unknown"))
              /\ p.product_price = Num(0) /\ p.link_value = Num(0)
              /\ p.utm_parameters = Null
              /\ \A c \in LinkOnlyColumns : p[c] = Undef
         /\ \A k \in UpsertsOf(i) :
              /\ Cardinality(upserts[k].after) = 1
              /\ upserts[k].before = {} =>
                   \A c \in LinkOnlyColumns : TheRow(upserts[k].after)[c] = Null

\* a click with no shortId was upserted into an empty table
C6_Witness ==
  \E i \in Invs :
    /\ NoShortId(i) /\ invocations[i].pc = "done" /\ invocations[i].errors = {}
    /\ \E k \in UpsertsOf(i) :
         /\ upserts[k].before = {}
         /\ TheRow(upserts[k].after).name = Str("Untitled")
         /\ TheRow(upserts[k].after).city_name = Str("LA")

\* the invocations that found a Link and no Product: the Link has no
\* productId, or the product read answered that the product does not exist
LinkWithoutProduct(i) ==
  LET v == invocations[i] IN
  /\ v.supabaseData # Undef
  /\ v.enrichedData.link # Undef
  /\ v.enrichedData.product = Undef
  /\ \/ ~Truthy(Get(v.enrichedData.link, "productId"))
     \/ v.productGets = 1 /\ "products" \notin v.errors

\* C7 as stated: product_price and link_value are link.linkValue
C7_AsStated ==
  \A i \in Invs :
    LinkWithoutProduct(i) =>
      /\ invocations[i].supabaseData.product_price =
           Get(invocations[i].enrichedData.link, "linkValue")
      /\ invocations[i].supabaseData.link_value =
           Get(invocations[i].enrichedData.link, "linkValue")

\* C7 amended: product_price and link_value are link.linkValue, or 0 when
\* the Link carries no linkValue (or carries 0)
C7_PriceFallback ==
  \A i \in Invs :
    LinkWithoutProduct(i) =>
      LET lv == Get(invocations[i].enrichedData.link, "linkValue")
          expected == IF lv.k = "number" /\ lv.n # 0 THEN lv ELSE Num(0)
      IN /\ invocations[i].supabaseData.product_price = expected
         /\ invocations[i].supabaseData.link_value = expected
         /\ \A k \in UpsertsOf(i) :
              /\ TheRow(upserts[k].after).product_price = expected
              /\ TheRow(upserts[k].after).link_value = expected

\* both fallbacks have been upserted: a Link with no productId and a Link
\* whose product does not exist
C7_Witness ==
  \E i, j \in Invs :
    /\ LinkWithoutProduct(i) /\ UpsertsOf(i) # {}
    /\ ~Truthy(Get(invocations[i].enrichedData.link, "productId"))
    /\ invocations[i].supabaseData.product_price = Num(42)
    /\ LinkWithoutProduct(j) /\ UpsertsOf(j) # {}
    /\ invocations[j].productGets = 1
    /\ invocations[j].supabaseData.product_price = Num(7)

\* the invocations whose links query answered that no link has the shortId
LinkNotFound(i) ==
  LET v == invocations[i] IN
  /\ Live(i) /\ Truthy(Get(v.after, "shortId"))
  /\ v.linkQueries >= 1 /\ "links" \notin v.errors
  /\ MatchingLinks(Get(v.after, "shortId")) = {}

\* C8: when no link has the click's shortId the invocation reads no
\* product, queries links once, throws nothing, and upserts one record built
\* from the click alone
C8_MissingLinkNonFatal ==
  \A i \in Invs :
    LinkNotFound(i) =>
      LET v == invocations[i] IN
      /\ v.linkQueries = 1 /\ v.productGets = 0
      /\ v.pc \in {"prepare", "upsert", "done"}
      /\ v.result # "throw" /\ v.errors \subseteq {"prepare", "upsert"}
      /\ (v.pc = "done" /\ "prepare" \notin v.errors) =>
           v.upsertCalls = 1 /\ v.result = "null"
      /\ v.supabaseData # Undef =>
           \E t1, t2 \in 0..MaxClock :
             v.supabaseData =
               prepareSupabaseData(v.after, EnrichedDefaults, v.clickId, t1, t2)
      /\ \A k \in UpsertsOf(i) : Cardinality(upserts[k].after) = 1

\* a click of an unknown short code was upserted
C8_Witness ==
  \E i \in Invs :
    /\ LinkNotFound(i) /\ invocations[i].pc = "done"
    /\ invocations[i].errors = {} /\ UpsertsOf(i) # {}
    /\ RowsOf(link_clicks, invocations[i].clickId) # {}


(***************************************************************************)
(* prepareSupabaseData taken alone, on geoipData of every shape            *)
(***************************************************************************)
StateIL == Obj([isoCode |-> Str("IL"), name |-> Str("Illinois")])
StateNoName == Obj([isoCode |-> Str("IL"), name |-> Str("")])
StateWI == Obj([isoCode |-> Str("WI"), name |-> Str("Wisconsin")])
\* what the state field may hold; Undef stands for a field the object lacks
StateShapes ==
  {Undef, Null, Arr(<<>>), Arr(<<StateIL>>), Arr(<<StateIL, StateWI>>),
   Arr(<<StateNoName>>), Arr(<<Null>>), Str("Illinois"), StateIL}
GeoChoices ==
  [cityName : {Undef, Null, Str(""), Str("Chicago")},
   city : {Undef, Str("Old Chicago Name")},
   countryName : {Undef, Str("United States")},
   country : {Undef, Str("USA")},
   postalCode : {Undef, Str(""), Str("60601")},
   postal : {Undef, Str("60000")},
   state : StateShapes,
   region : {Undef, Str("Midwest")}]
\* the object that has the fields a choice gives a value
ObjOf(choice) == Obj([f \in {g \in DOMAIN choice : choice[g] # Undef} |-> choice[f]])
\* the click fields beside geoipData
PureBases ==
  {[shortId |-> Str("abc123")],
   [shortId |-> Str("abc123"), name |-> Str("ClickName"),
    linkType |-> Str("ClickType"), sourceType |-> Str("qr"),
    qrIdentifier |-> Str("black-friday-2025"), qrCodeId |-> Str("qr1"),
    timestamp |-> Timestamp(5)]}
PureClicks ==
  {Obj(b) : b \in PureBases}
    \cup {Obj(b @@ [geoipData |-> ObjOf(g)]) : b \in PureBases, g \in GeoChoices}
\* what getLinkAndProductData returns for link abc123 and product p1
EnrichedFull ==
  [link |-> Obj(LinkFull.o @@ [firestoreDocId |-> Str("L1")]),
   product |-> Obj(ProductOne.o @@ [docId |-> Str("p1")]),
   productPrice |-> Num(10), linkValue |-> Num(42),
   linkUtmParameters |-> Get(LinkFull, "utmParameters")]
PureEnrichments == {EnrichedDefaults, EnrichedFull}

InitPrepare ==
  /\ SysInit
  /\ pureClick \in PureClicks
  /\ pureEnriched \in PureEnrichments
  /\ pureOut = Undef

\* one call of prepareSupabaseData; it returns unless it throws
ApplyPrepare ==
  /\ pureOut = Undef
  /\ ~prepareThrows(pureClick, pureEnriched)
  /\ pureOut' = prepareSupabaseData(pureClick, pureEnriched, "c1", now, now)
  /\ UNCHANGED <<sysVars, pureClick, pureEnriched, otherVars>>

NextPrepare == ApplyPrepare

SpecPrepare == InitPrepare /\ [][NextPrepare]_vars

pureGeo == Get(pureClick, "geoipData")
\* the object has the field
Has(obj, f) == obj.k = "object" /\ f \in DOMAIN obj.o
NonEmptyString(v) == v.k = "string" /\ v.s # ""

\* C9 as stated: when the camelCase field and its lowercase equivalent are
\* both present, the output is the camelCase value, whatever the values
C9_AsStated ==
  pureOut # Undef =>
    /\ (Has(pureGeo, "cityName") /\ Has(pureGeo, "city")) =>
         pureOut.city_name = pureGeo.o.cityName
    /\ (Has(pureGeo, "countryName") /\ Has(pureGeo, "country")) =>
         pureOut.country_name = pureGeo.o.countryName
    /\ (Has(pureGeo, "postalCode") /\ Has(pureGeo, "postal")) =>
         pureOut.postal_code = pureGeo.o.postalCode

\* C9 amended: when both are present, the output is the camelCase value if
\* that is a non-empty string; a camelCase value that is empty or null
\* yields the lowercase value
C9_Precedence ==
  pureOut # Undef =>
    /\ (Has(pureGeo, "cityName") /\ Has(pureGeo, "city")) =>
         pureOut.city_name =
           (IF NonEmptyString(pureGeo.o.cityName)
            THEN pureGeo.o.cityName ELSE pureGeo.o.city)
    /\ (Has(pureGeo, "countryName") /\ Has(pureGeo, "country")) =>
         pureOut.country_name =
           (IF NonEmptyString(pureGeo.o.countryName)
            THEN pureGeo.o.countryName ELSE pureGeo.o.country)
    /\ (Has(pureGeo, "postalCode") /\ Has(pureGeo, "postal")) =>
         pureOut.postal_code =
           (IF NonEmptyString(pureGeo.o.postalCode)
            THEN pureGeo.o.postalCode ELSE pureGeo.o.postal)

\* the mixed case of test-geoip-coalescing.js has been coalesced
C9_Witness ==
  /\ pureOut # Undef
  /\ Has(pureGeo, "cityName") /\ Has(pureGeo, "city")
  /\ Has(pureGeo, "countryName") /\ Has(pureGeo, "country")
  /\ Has(pureGeo, "postalCode") /\ Has(pureGeo, "postal")
  /\ pureOut.city_name = Str("Chicago")
  /\ pureOut.country_name = Str("United States")
  /\ pureOut.postal_code = Str("60601")

pureState == Get(pureGeo, "state")
\* C10 as stated: an array's first element supplies state_name and
\* state_iso_code, its name winning over region; a state that is null,
\* absent or no array leaves state_name to region and state_iso_code null;
\* nothing throws
C10_AsStated ==
  /\ pureOut = Undef => ~prepareThrows(pureClick, pureEnriched)
  /\ pureOut # Undef =>
       /\ (pureState.k = "array" /\ First(pureState).k = "object") =>
            /\ pureOut.state_name = First(pureState).o.name
            /\ pureOut.state_iso_code = First(pureState).o.isoCode
       /\ pureState.k # "array" =>
            /\ pureOut.state_name = Get(pureGeo, "region")
            /\ pureOut.state_iso_code = Null

\* C10 amended: the first element of a state array supplies state_name when
\* its name is a non-empty string, and state_iso_code when its isoCode is;
\* otherwise (an empty array, a first element without the value, a state
\* that is null, absent or no array) state_name is region and
\* state_iso_code is null; nothing throws
C10_StateCoalescing ==
  /\ pureOut = Undef => ~prepareThrows(pureClick, pureEnriched)
  /\ pureOut # Undef =>
       LET el == IF pureState.k = "array" /\ Len(pureState.a) > 0
                 THEN pureState.a[1] ELSE Undef
           name == IF Has(el, "name") THEN el.o.name ELSE Undef
           iso == IF Has(el, "isoCode") THEN el.o.isoCode ELSE Undef
       IN /\ pureOut.state_name =
               (IF NonEmptyString(name) THEN name ELSE Get(pureGeo, "region"))
          /\ pureOut.state_iso_code = (IF NonEmptyString(iso) THEN iso ELSE Null)

\* a state array and a region were both present: the array's element won
C10_Witness ==
  /\ pureOut # Undef
  /\ pureState = Arr(<<StateIL, StateWI>>)
  /\ Has(pureGeo, "region")
  /\ pureOut.state_name = Str("Illinois")
  /\ pureOut.state_iso_code = Str("IL")

(***************************************************************************)
(* C11: geo fields that are absent                                         *)
(***************************************************************************)
\* C11: when neither the primary nor the fallback input field of a geo
\* concept is present (geoipData itself may be absent), the output value
\* of that concept is null, and nothing throws
C11_AbsentGeoIsNull ==
  /\ pureOut = Undef => ~prepareThrows(pureClick, pureEnriched)
  /\ pureOut # Undef =>
       /\ (~Has(pureGeo, "cityName") /\ ~Has(pureGeo, "city")) =>
            pureOut.city_name = Null
       /\ (~Has(pureGeo, "countryName") /\ ~Has(pureGeo, "country")) =>
            pureOut.country_name = Null
       /\ (~Has(pureGeo, "postalCode") /\ ~Has(pureGeo, "postal")) =>
            pureOut.postal_code = Null
       /\ (~Has(pureGeo, "state") /\ ~Has(pureGeo, "region")) =>
            pureOut.state_name = Null
       /\ ~Has(pureGeo, "state") => pureOut.state_iso_code = Null

(***************************************************************************)
(* prepareSupabaseData taken alone, on click and link fields of every      *)
(* shape: absent, empty, given                                             *)
(***************************************************************************)
FieldChoices ==
  [name : {Undef, Str(""), Str("ClickName")},
   linkType : {Undef, Str(""), Str("ClickType")},
   pagetype : {Undef, Str("ClickPage")},
   sourceType : {Undef, Str(""), Str("qr")},
   qrIdentifier : {Undef, Str(""), Str("black-friday-2025")},
   qrCodeId : {Undef, Str(""), Str("qr1")}]
FieldClicks == {Obj([shortId |-> Str("fld")] @@ ObjOf(c).o) : c \in FieldChoices}
LinkFieldChoices ==
  [name : {Undef, Str(""), Str("X")},
   pageType : {Undef, Null, Str(""), Str("ATC")}]
\* what getLinkAndProductData returns for a link with these fields, no
\* linkValue and no productId; and what it returns when no link was found
FieldEnrichments ==
  {EnrichedDefaults}
    \cup {[EnrichedDefaults EXCEPT
             !.link = Obj([urlShortCode |-> Str("fld"), firestoreDocId |-> Str("L5")]
                          @@ ObjOf(l).o)] : l \in LinkFieldChoices}

InitFields ==
  /\ SysInit
  /\ pureClick \in FieldClicks
  /\ pureEnriched \in FieldEnrichments
  /\ pureOut = Undef

SpecFields == InitFields /\ [][NextPrepare]_vars

pureLink == pureEnriched.link

\* C12 as stated: name is the Link's name if present, else the click's name
\* if present, else "Untitled"; the link type fields are the Link's pageType
\* if present, else the click's own type field, else "Unknown"
C12_AsStated ==
  pureOut # Undef =>
    /\ pureOut.name =
         (IF Has(pureLink, "name") THEN pureLink.o.name
          ELSE IF Has(pureClick, "name") THEN pureClick.o.name
          ELSE Str("Untitled"))
    /\ \A col \in {"link_type", "page_type", "link_action_type"} :
         pureOut[col] =
           (IF Has(pureLink, "pageType") THEN pureLink.o.pageType
            ELSE IF Has(pureClick, "linkType") THEN pureClick.o.linkType
            ELSE IF Has(pureClick, "pagetype") THEN pureClick.o.pagetype
            ELSE Str("Unknown"))

\* the field of the object holds a non-empty string
Supplies(obj, f) == Has(obj, f) /\ NonEmptyString(obj.o[f])

\* C12 amended: name is the Link's name if that is a non-empty string, else
\* the click's name if non-empty, else "Untitled"; link_type, page_type and
\* link_action_type are all the Link's pageType if non-empty, else the
\* click's linkType if non-empty, else the click's pagetype if non-empty,
\* else "Unknown"; a field that is present but empty or null counts as absent
C12_NameTypePrecedence ==
  pureOut # Undef =>
    /\ pureOut.name =
         (IF Supplies(pureLink, "name") THEN pureLink.o.name
          ELSE IF Supplies(pureClick, "name") THEN pureClick.o.name
          ELSE Str("Untitled"))
    /\ \A col \in {"link_type", "page_type", "link_action_type"} :
         pureOut[col] =
           (IF Supplies(pureLink, "pageType") THEN pureLink.o.pageType
            ELSE IF Supplies(pureClick, "linkType") THEN pureClick.o.linkType
            ELSE IF Supplies(pureClick, "pagetype") THEN pureClick.o.pagetype
            ELSE Str("Unknown"))

\* a link and a click both supplied a name and a type: the link's won
C12_Witness ==
  /\ pureOut # Undef
  /\ Supplies(pureLink, "name") /\ Supplies(pureClick, "name")
  /\ Supplies(pureLink, "pageType") /\ Supplies(pureClick, "linkType")
  /\ pureOut.name = Str("X")
  /\ pureOut.link_type = Str("ATC")

(***************************************************************************)
(* C13: the QR tracking columns                                            *)
(***************************************************************************)
\* a row an earlier QR scan of the click left in the table
EarlierRow == AsRow(prepareSupabaseData(ClickFull, EnrichedFull, "c1", 0, 0))
\* the row of click c1 once the prepared record is upserted into the table
SinkRow(table) == TheRow(RowsOf(Upserted(table, JsonBody(pureOut)), "c1"))

\* C13 as stated: with no sourceType the sink holds source_type "link", with
\* no qrIdentifier / qrCodeId it holds null; a field that is present is
\* copied unchanged
C13_AsStated ==
  pureOut # Undef =>
    \A table \in {{}, {EarlierRow}} :
      /\ SinkRow(table).source_type =
           (IF Has(pureClick, "sourceType") THEN pureClick.o.sourceType
            ELSE Str("link"))
      /\ SinkRow(table).qr_identifier =
           (IF Has(pureClick, "qrIdentifier") THEN pureClick.o.qrIdentifier
            ELSE Null)
      /\ SinkRow(table).qr_code_id =
           (IF Has(pureClick, "qrCodeId") THEN pureClick.o.qrCodeId ELSE Null)

\* C13 amended: the sink row of the click, new or already there, holds
\* source_type "link" when the click has no sourceType or an empty one, and
\* null in qr_identifier / qr_code_id when the click has no such field or an
\* empty one; a non-empty sourceType, qrIdentifier or qrCodeId is copied
\* unchanged
C13_BackwardCompat ==
  pureOut # Undef =>
    \A table \in {{}, {EarlierRow}} :
      /\ SinkRow(table).source_type =
           (IF Supplies(pureClick, "sourceType") THEN pureClick.o.sourceType
            ELSE Str("link"))
      /\ SinkRow(table).qr_identifier =
           (IF Supplies(pureClick, "qrIdentifier") THEN pureClick.o.qrIdentifier
            ELSE Null)
      /\ SinkRow(table).qr_code_id =
           (IF Supplies(pureClick, "qrCodeId") THEN pureClick.o.qrCodeId ELSE Null)

\* a click without the QR fields was prepared: over the earlier QR row the
\* sink now holds the defaults
C13_Witness ==
  /\ pureOut # Undef
  /\ ~Has(pureClick, "sourceType")
  /\ ~Has(pureClick, "qrIdentifier") /\ ~Has(pureClick, "qrCodeId")
  /\ EarlierRow.source_type = Str("qr")
  /\ SinkRow({EarlierRow}).source_type = Str("link")
  /\ SinkRow({EarlierRow}).qr_identifier = Null
  /\ SinkRow({EarlierRow}).qr_code_id = Null

(***************************************************************************)
(* C14: a lookup that throws                                               *)
(***************************************************************************)
\* the columns prepareSupabaseData copies from the click alone
ClickColumns ==
  [short_id |-> "shortId", device_type |-> "deviceType",
   user_agent |-> "userAgent", ip_address |-> "ipAddress",
   referrer |-> "referrer", influencer_id |-> "influencerId",
   campaign_id |-> "campaignId"]
\* the invocations one of whose lookups threw
LookupThrew(i) ==
  Live(i) /\ invocations[i].errors \cap {"links", "products"} # {}

\* C14: when the links query or the product read throws, the invocation
\* still goes on to prepare a record and, the preparation succeeding, issues
\* exactly one upsert for the click; the record holds the click-derived
\* fields and, when it was the product read that threw, the link data read
\* before it (link id, link value, link name, UTM parameters) with no
\* product data; when the links query threw it holds no link data
C14_PartialOverNone ==
  \A i \in Invs :
    LookupThrew(i) =>
      LET v == invocations[i]
          p == v.supabaseData
          shortId == Get(v.after, "shortId")
      IN /\ v.pc \in {"prepare", "upsert", "done"}
         /\ v.result # "throw"
         /\ (v.pc = "done" /\ "prepare" \notin v.errors) => v.upsertCalls = 1
         /\ p # Undef =>
              /\ p.firestore_id = Str(v.clickId)
              /\ \A c \in DOMAIN ClickColumns : p[c] = Get(v.after, ClickColumns[c])
              /\ \A c \in {"product_name", "product_brand", "product_category",
                           "product_upc"} : p[c] = Undef
              /\ "links" \in v.errors =>
                   /\ \A c \in LinkOnlyColumns : p[c] = Undef
                   /\ p.link_value = Num(0)
              /\ "products" \in v.errors =>
                   LET link == FirstLink(shortId) IN
                   /\ p.link_firestore_doc_id = Get(link, "firestoreDocId")
                   /\ p.link_long_url = Get(link, "longLink")
                   /\ p.retailer_name = Get(link, "siteRetailer")
                   /\ p.link_value = Or(Get(link, "linkValue"), Num(0))
                   /\ p.name = finalName(link, v.after)
                   /\ p.utm_parameters = Or(Get(link, "utmParameters"), Null)
                   /\ p.product_id = Get(link, "productId")
         /\ \A k \in UpsertsOf(i) :
              /\ Cardinality(upserts[k].after) = 1
              /\ TheRow(upserts[k].after).firestore_id = Str(v.clickId)

\* one invocation whose links query threw and one whose product read threw
\* have both upserted their record
C14_Witness ==
  \E i, j \in Invs :
    /\ "links" \in invocations[i].errors /\ UpsertsOf(i) # {}
    /\ "products" \in invocations[j].errors /\ UpsertsOf(j) # {}
    /\ invocations[j].supabaseData.link_firestore_doc_id = Str("L1")
    /\ invocations[j].supabaseData.product_name = Undef

(***************************************************************************)
(* C15: the order of the lookups and the upsert                            *)
(***************************************************************************)
\* C15: in every step and for every invocation, a product read happens only
\* when the links query has answered with a link that carries a productId;
\* the upsert happens only once the lookups are over, and no lookup follows
\* it; the invocation makes at most one links query, one product read and
\* one upsert
C15_LookupOrdering ==
  [][\A i \in Invs :
       LET v == invocations[i]
           w == invocations'[i]
       IN /\ w.linkQueries <= 1 /\ w.productGets <= 1 /\ w.upsertCalls <= 1
          /\ w.linkQueries > v.linkQueries =>
               v.productGets = 0 /\ v.upsertCalls = 0
          /\ w.productGets > v.productGets =>
               /\ v.linkQueries = 1 /\ "links" \notin v.errors
               /\ Truthy(Get(v.enrichedData.link, "productId"))
               /\ v.upsertCalls = 0
          /\ w.upsertCalls > v.upsertCalls =>
               /\ v.pc = "upsert" /\ w.pc = "done"
               /\ Truthy(Get(v.enrichedData.link, "productId")) =>
                    v.productGets = 1
               /\ Truthy(Get(v.after, "shortId")) => v.linkQueries = 1
          /\ v.upsertCalls = 1 =>
               w.linkQueries = v.linkQueries /\ w.productGets = v.productGets
    ]_vars

\* an invocation made its links query, its product read and its upsert
C15_Witness ==
  \E i \in Invs :
    /\ invocations[i].pc = "done"
    /\ invocations[i].linkQueries = 1
    /\ invocations[i].productGets = 1
    /\ invocations[i].upsertCalls = 1
    /\ UpsertsOf(i) # {}

(***************************************************************************)
(* C16: what an invocation writes                                          *)
(***************************************************************************)
\* the rows of the table that belong to clicks other than c
RowsOfOthers(table, c) == {r \in table : r.firestore_id # Str(c)}

\* C16: a step of an invocation for click c leaves the clicks, links and
\* products collections as they are and leaves every sink row of another
\* click as it is; the sink changes only in a step of an invocation, and
\* then only in the one row whose firestore_id is c
C16_Frame ==
  [][/\ \A i \in Invs :
          invocations'[i] # invocations[i] =>
            LET c == invocations[i].clickId IN
            /\ clicks' = clicks /\ links' = links /\ products' = products
            /\ RowsOfOthers(link_clicks', c) = RowsOfOthers(link_clicks, c)
            /\ Cardinality(RowsOf(link_clicks', c)) <= 1
            /\ link_clicks' # link_clicks =>
                 /\ invocations[i].pc = "upsert"
                 /\ \A j \in Invs \ {i} : invocations'[j] = invocations[j]
     /\ link_clicks' # link_clicks =>
          \E i \in Invs : invocations'[i] # invocations[i]
    ]_vars

\* an invocation for c2 has upserted its row while the row of c1, written
\* before, is still as c1's invocation left it
C16_Witness ==
  \E i, j \in Invs :
    /\ invocations[i].clickId = "c1" /\ invocations[j].clickId = "c2"
    /\ \E k \in UpsertsOf(i) : \E l \in UpsertsOf(j) :
         /\ k < l
         /\ RowsOf(link_clicks, "c1") = upserts[k].after
         /\ RowsOf(link_clicks, "c2") = upserts[l].after
    /\ Cardinality(link_clicks) = 2

(***************************************************************************)
(* exportAnalytics: the BigQuery export endpoint                           *)
(***************************************************************************)
\* Object.keys(QUERIES)
QueryKeys ==
  {"general", "pageviews_by_date", "clicks_by_date", "interactions",
   "clicks_by_url", "pageviews_by_device", "top_cities",
   "top_traffic_sources", "full_report"}
maxRangeDays == 365

DigitValue ==
  ("0" :> 0) @@ ("1" :> 1) @@ ("2" :> 2) @@ ("3" :> 3) @@ ("4" :> 4) @@
  ("5" :> 5) @@ ("6" :> 6) @@ ("7" :> 7) @@ ("8" :> 8) @@ ("9" :> 9)
IsDigit(c) == c \in DOMAIN DigitValue
\* /^\d{4}-\d{2}-\d{2}$/.test(chars)
MatchesDateRegex(chars) ==
  /\ Len(chars) = 10
  /\ \A i \in {1, 2, 3, 4, 6, 7, 9, 10} : IsDigit(chars[i])
  /\ chars[5] = "-" /\ chars[8] = "-"
\* the year, month and day fields of a string the regex matches
DateYear(chars) ==
  1000 * DigitValue[chars[1]] + 100 * DigitValue[chars[2]]
    + 10 * DigitValue[chars[3]] + DigitValue[chars[4]]
DateMonth(chars) == 10 * DigitValue[chars[6]] + DigitValue[chars[7]]
DateDay(chars) == 10 * DigitValue[chars[9]] + DigitValue[chars[10]]
IsLeapYear(y) == (y % 4 = 0 /\ y % 100 # 0) \/ y % 400 = 0
DaysInMonth(y, m) ==
  IF m = 2 THEN (IF IsLeapYear(y) THEN 29 ELSE 28)
  ELSE IF m \in {4, 6, 9, 11} THEN 30 ELSE 31
\* the day number (days since 1970-01-01) of a year, month and day
DaysFromCivil(y, m, d) ==
  LET yy == IF m <= 2 THEN y - 1 ELSE y
      era == yy \div 400
      yoe == yy - era * 400
      mp == IF m > 2 THEN m - 3 ELSE m + 9
      doy == (153 * mp + 2) \div 5 + d - 1
      doe == yoe * 365 + yoe \div 4 - yoe \div 100 + doy
  IN era * 146097 + doe - 719468
\* whether new Date(chars) is a valid date: the month must be 1..12 and the
\* day 1..31; a day past the end of its month is rejected by a strict
\* parser and rolled over into the next month by a lenient one
DateIsValid(chars, lenient) ==
  /\ DateMonth(chars) \in 1..12
  /\ DateDay(chars) \in 1..31
  /\ lenient \/ DateDay(chars) <= DaysInMonth(DateYear(chars), DateMonth(chars))
\* new Date(chars).getTime(), in days
DateDays(chars) == DaysFromCivil(DateYear(chars), DateMonth(chars), DateDay(chars))

\* a validation that accepts every type
validateExportTypeAny(type) == TRUE
\* a validation of the date that only applies the regex
validateDateFormatAny(dateString, lenient) == TRUE

validateExportType(type) == type.k = "string" /\ "s" \in DOMAIN type /\ type.s \in QueryKeys
validateProjectId(projectId) ==
  projectId.k = "string" /\ Len(projectId.s) > 0 /\ Len(projectId.s) < 100
validateDateFormat(dateString, lenient) ==
  /\ MatchesDateRegex(dateString.chars)
  /\ DateIsValid(dateString.chars, lenient)

\* lines 495-576: the response the checks send, or status 0 when the request
\* passes them all
ExportChecks(req, lenient) ==
  LET q == req.query
      format == IF q.format = Undef THEN Str("csv") ELSE q.format
  IN IF req.method = "OPTIONS" THEN [status |-> 204, error |-> ""]
     ELSE IF req.method # "GET"
     THEN [status |-> 405, error |-> "Method not allowed"]
     ELSE IF ~Truthy(q.type) \/ ~Truthy(q.project_id) \/ ~Truthy(q.start_date)
             \/ ~Truthy(q.end_date)
     THEN [status |-> 400, error |-> "Missing required parameters"]
     ELSE IF ~validateExportType(q.type)
     THEN [status |-> 400, error |-> "Invalid export type"]
     ELSE IF ~validateProjectId(q.project_id)
     THEN [status |-> 400, error |-> "Invalid project ID format"]
     ELSE IF ~validateDateFormat(q.start_date, lenient)
             \/ ~validateDateFormat(q.end_date, lenient)
     THEN [status |-> 400, error |-> "Invalid date format"]
     ELSE IF DateDays(q.start_date.chars) > DateDays(q.end_date.chars)
     THEN [status |-> 400, error |-> "Start date must be before end date"]
     ELSE IF DateDays(q.end_date.chars) - DateDays(q.start_date.chars) > maxRangeDays
     THEN [status |-> 400, error |-> "Date range too large"]
     ELSE IF format \notin {Str("csv"), Str("json")}
     THEN [status |-> 400, error |-> "Invalid format"]
     ELSE [status |-> 0, error |-> ""]

ExportDates ==
  {Undef, Str(""), Text(<<"2", "0", "2", "4", "-", "0", "1", "-", "0", "1">>), Text(<<"2", "0", "2", "4", "-", "1", "2", "-", "3", "1">>), Text(<<"2", "0", "2", "5", "-", "0", "1", "-", "0", "1">>), Text(<<"2", "0", "2", "4", "-", "0", "2", "-", "3", "0">>), Text(<<"2", "0", "2", "4", "-", "1", "3", "-", "0", "1">>), Text(<<"0", "1", "/", "1", "5", "/", "2", "0", "2", "4">>), Text(<<"2", "0", "2", "4", "-", "1", "-", "5">>)}
LongProjectId == Str("pppppppppppppppppppppppppppppppppppppppppppppppppppppppppppppppppppppppppppppppppppppppppppppppppppp")
\* the requests the endpoint may receive
ExportRequests ==
  [method : {"GET", "POST", "OPTIONS"},
   query : [type : {Undef, Str(""), Str("general"), Str("full_report"), Str("bogus")},
            project_id : {Undef, Str("proj1"), LongProjectId},
            start_date : ExportDates,
            end_date : ExportDates,
            format : {Undef, Str(""), Str("csv"), Str("json"), Str("xml")}]]

\* what bigquery.query does: rows, no rows, or an error of one of the kinds
\* the catch block tells apart
QueryOutcomes == {"rows", "empty", "permission", "timeout", "error", "thrown"}
\* the status the handler answers for an outcome (lines 586-698)
StatusOf(outcome) ==
  CASE outcome \in {"rows", "empty"} -> 200
    [] outcome = "permission" -> 403
    [] outcome = "timeout" -> 504
    [] OTHER -> 500

\* lines 487-582: a request arrives and is checked
ExportReceive(req) ==
  /\ exportPc = "idle"
  /\ \E lenient \in BOOLEAN :
       LET r == ExportChecks(req, lenient) IN
       /\ exportReq' = req
       /\ exportRes' = r
       /\ exportPc' = IF r.status = 0 THEN "query" ELSE "done"
  /\ UNCHANGED <<bqQueries, sysVars, pureVars, qrVars, draftVars, bqVars>>

\* lines 584-698: the query or, for full_report, the eight queries of
\* generateFullReport run, and the handler answers
ExportQuery ==
  /\ exportPc = "query"
  /\ \E outcome \in QueryOutcomes :
       exportRes' = [status |-> StatusOf(outcome), error |-> outcome]
  /\ bqQueries' = IF exportReq.query.type = Str("full_report") THEN 8 ELSE 1
  /\ exportPc' = "done"
  /\ UNCHANGED <<exportReq, sysVars, pureVars, qrVars, draftVars, bqVars>>

NextExport ==
  \/ \E req \in ExportRequests : ExportReceive(req)
  \/ ExportQuery

SpecExport == Init /\ [][NextExport]_vars

\* the string is a date of the calendar written YYYY-MM-DD
IsCalendarDate(v) ==
  /\ v.k = "string" /\ "chars" \in DOMAIN v
  /\ MatchesDateRegex(v.chars)
  /\ DateMonth(v.chars) \in 1..12
  /\ DateDay(v.chars) \in 1..DaysInMonth(DateYear(v.chars), DateMonth(v.chars))
\* the query parameter is given and is not in the YYYY-MM-DD format
NotDateFormat(v) ==
  v # Undef /\ ~("chars" \in DOMAIN v /\ MatchesDateRegex(v.chars))
\* the first date is later in the calendar than the second
DateAfter(a, b) ==
  LET ya == DateYear(a.chars)
      yb == DateYear(b.chars)
      ma == DateMonth(a.chars)
      mb == DateMonth(b.chars)
  IN \/ ya > yb
     \/ ya = yb /\ ma > mb
     \/ ya = yb /\ ma = mb /\ DateDay(a.chars) > DateDay(b.chars)
\* the conditions under which C17 requires a 400
ExportBad(q) ==
  \/ q.type = Undef \/ q.project_id = Undef
  \/ q.start_date = Undef \/ q.end_date = Undef
  \/ ~(q.type.k = "string" /\ "s" \in DOMAIN q.type /\ q.type.s \in QueryKeys)
  \/ NotDateFormat(q.start_date) \/ NotDateFormat(q.end_date)
  \/ /\ IsCalendarDate(q.start_date) /\ IsCalendarDate(q.end_date)
     /\ \/ DateAfter(q.start_date, q.end_date)
        \/ DateDays(q.end_date.chars) - DateDays(q.start_date.chars) > 365
  \/ q.format # Undef /\ q.format \notin {Str("csv"), Str("json")}

MaxQrRequests == 2

\* the characters of /^[a-z0-9-]+$/
IdentifierChars ==
  {"a", "b", "c", "d", "e", "f", "g", "h", "i", "j", "k", "l", "m", "n", "o",
   "p", "q", "r", "s", "t", "u", "v", "w", "x", "y", "z", "-"}
    \cup DOMAIN DigitValue
\* const reserved
reserved ==
  {<<"a", "p", "i">>, <<"a", "d", "m", "i", "n">>, <<"q", "r">>,
   <<"l", "i", "n", "k">>, <<"t", "e", "s", "t">>, <<"w">>,
   <<"a", "p", "p">>, <<"w", "w", "w">>}

\* a validation without the reserved words check
validateQRIdentifierNoReserved(identifier) ==
  LET c == identifier.chars IN
  IF Len(c) < 3 \/ Len(c) > 50
  THEN [valid |-> FALSE, error |-> "Identifier must be 3-50 characters long"]
  ELSE IF \E i \in 1..Len(c) : c[i] \notin IdentifierChars
  THEN [valid |-> FALSE, error |-> "Use only lowercase letters, numbers, and hyphens"]
  ELSE IF \/ \E i \in 1..(Len(c) - 1) : c[i] = "-" /\ c[i + 1] = "-"
          \/ c[1] = "-" \/ c[Len(c)] = "-"
  THEN [valid |-> FALSE, error |-> "Invalid hyphen placement"]
  ELSE [valid |-> TRUE, error |-> ""]

\* lines 53-76
validateQRIdentifier(identifier) ==
  LET c == identifier.chars IN
  IF Len(c) < 3 \/ Len(c) > 50
  THEN [valid |-> FALSE, error |-> "Identifier must be 3-50 characters long"]
  ELSE IF \E i \in 1..Len(c) : c[i] \notin IdentifierChars
  THEN [valid |-> FALSE, error |-> "Use only lowercase letters, numbers, and hyphens"]
  ELSE IF \/ \E i \in 1..(Len(c) - 1) : c[i] = "-" /\ c[i + 1] = "-"
          \/ c[1] = "-" \/ c[Len(c)] = "-"
  THEN [valid |-> FALSE, error |-> "Invalid hyphen placement"]
  ELSE IF c \in reserved
  THEN [valid |-> FALSE, error |-> "This identifier is reserved"]
  ELSE [valid |-> TRUE, error |-> ""]

\* a request just arrived: nothing read, nothing written, no answer yet
NewQrRequest(body) ==
  [body |-> body, pc |-> "start", status |-> 0, success |-> FALSE,
   error |-> "", suggestions |-> 0, linkData |-> Undef, qrCodeUrl |-> Undef,
   reads |-> 0, wrote |-> {}, existed |-> FALSE]
\* the request answers with this status and is over
QrAnswer(r, status, error) ==
  [r EXCEPT !.pc = "done", !.status = status, !.error = error]

\* lines 105-127: the request arrives; required fields and identifier format
QrStart(body) ==
  LET r == [NewQrRequest(body) EXCEPT
              !.existed = body.identifier.k = "string"
                            /\ "chars" \in DOMAIN body.identifier
                            /\ body.identifier.chars \in DOMAIN qrCodes
                            /\ qrCodes[body.identifier.chars] # Undef]
  IN IF ~Truthy(body.linkId) \/ ~Truthy(body.identifier) \/ ~Truthy(body.name)
     THEN QrAnswer(r, 400, "Missing required fields: linkId, identifier, name")
     ELSE IF ~validateQRIdentifier(body.identifier).valid
     THEN QrAnswer(r, 400, validateQRIdentifier(body.identifier).error)
     ELSE [r EXCEPT !.pc = "getLink"]

QrReceive(body) ==
  /\ Len(qrRequests) < MaxQrRequests
  /\ qrRequests' = Append(qrRequests, QrStart(body))
  /\ UNCHANGED <<qrCodes, sysVars, pureVars, exportVars, draftVars, bqVars>>

\* db.collection("links").doc(linkId): the position of the document, 0 if none
LinkPosition(linkId) ==
  IF \E n \in 1..Len(links) : links[n].id = linkId
  THEN CHOOSE n \in 1..Len(links) : links[n].id = linkId
  ELSE 0

\* lines 129-140: the link is read; it throws, is missing, or is there
QrGetLink(i) ==
  LET r == qrRequests[i]
      n == LinkPosition(r.body.linkId.s)
  IN
  /\ r.pc = "getLink"
  /\ \E ok \in BOOLEAN :
       qrRequests' = [qrRequests EXCEPT ![i] =
         IF ~ok THEN QrAnswer(r, 500, "links get")
         ELSE IF n = 0
         THEN QrAnswer([r EXCEPT !.reads = r.reads + 1], 404, "Link not found")
         ELSE [r EXCEPT !.reads = r.reads + 1, !.linkData = links[n].data,
                        !.pc = "getExisting"]]
  /\ UNCHANGED <<qrCodes, sysVars, pureVars, exportVars, draftVars, bqVars>>

\* a duplicate check that never finds the identifier
QrGetExistingAlwaysFree(i) ==
  LET r == qrRequests[i] IN
  /\ r.pc = "getExisting"
  /\ qrRequests' = [qrRequests EXCEPT ![i] =
                      [r EXCEPT !.reads = r.reads + 1, !.pc = "generate"]]
  /\ UNCHANGED <<qrCodes, sysVars, pureVars, exportVars, draftVars, bqVars>>

\* lines 142-161: the qrCodes document of the identifier is read; if it
\* exists the request is answered 409 with three suggestions
QrGetExisting(i) ==
  LET r == qrRequests[i]
      existingQR == qrCodes[r.body.identifier.chars]
  IN
  /\ r.pc = "getExisting"
  /\ \E ok \in BOOLEAN :
       qrRequests' = [qrRequests EXCEPT ![i] =
         IF ~ok THEN QrAnswer(r, 500, "qrCodes get")
         ELSE IF existingQR # Undef
         THEN QrAnswer([r EXCEPT !.reads = r.reads + 1, !.suggestions = 3],
                       409, "already in use")
         ELSE [r EXCEPT !.reads = r.reads + 1, !.pc = "generate"]]
  /\ UNCHANGED <<qrCodes, sysVars, pureVars, exportVars, draftVars, bqVars>>

\* lines 163-178: generateQrCode posts to the generator; it answers the
\* image url or fails
QrGenerate(i) ==
  LET r == qrRequests[i] IN
  /\ r.pc = "generate"
  /\ \E ok \in BOOLEAN :
       qrRequests' = [qrRequests EXCEPT ![i] =
         IF ~ok THEN QrAnswer(r, 500, "Failed to generate QR code")
         ELSE [r EXCEPT !.qrCodeUrl = Str("https://img"), !.pc = "set"]]
  /\ UNCHANGED <<qrCodes, sysVars, pureVars, exportVars, draftVars, bqVars>>

\* lines 180-193: the record the request stores
qrRecord(r) ==
  Obj([qrCodeId |-> Text(r.body.identifier.chars),
       linkId |-> r.body.linkId,
       shortId |-> Or(Get(r.linkData, "urlShortCode"), Str("")),
       name |-> r.body.name,
       qrCodeUrl |-> r.qrCodeUrl,
       createdAt |-> [k |-> "Date"],
       createdBy |-> r.body.userId,
       projectId |->
         Or(Get(Get(r.linkData, "projectDetails"), "projectId"), Str("")),
       isDefault |-> Bool(FALSE),
       clickCount |-> Num(0),
       customData |-> Or(r.body.customData, Obj(<<>>))])

\* lines 195-196: qrRef.set(qrRecord); Firestore refuses a field that is
\* undefined, and the call may fail otherwise
QrSet(i) ==
  LET r == qrRequests[i] IN
  /\ r.pc = "set"
  /\ \E ok \in BOOLEAN :
       IF ok /\ r.body.userId # Undef
       THEN /\ qrCodes' = [qrCodes EXCEPT ![r.body.identifier.chars] = qrRecord(r)]
            /\ qrRequests' = [qrRequests EXCEPT ![i] =
                 [r EXCEPT !.wrote = r.wrote \cup {"qrCodes"}, !.pc = "update"]]
       ELSE /\ qrRequests' = [qrRequests EXCEPT ![i] = QrAnswer(r, 500, "qrCodes set")]
            /\ UNCHANGED qrCodes
  /\ UNCHANGED <<sysVars, pureVars, exportVars, draftVars, bqVars>>

\* lines 198-216: the link's qrCodeCount is set to one more than the count
\* the request read, and the request is answered with success
QrUpdateLink(i) ==
  LET r == qrRequests[i]
      n == LinkPosition(r.body.linkId.s)
      currentCount == Or(Get(r.linkData, "qrCodeCount"), Num(1))
  IN
  /\ r.pc = "update"
  /\ \E ok \in BOOLEAN :
       IF ok
       THEN /\ links' = [links EXCEPT ![n].data =
                 Obj([qrCodeCount |-> Num(currentCount.n + 1),
                      lastQRCodeCreated |-> [k |-> "Date"]] @@ links[n].data.o)]
            /\ qrRequests' = [qrRequests EXCEPT ![i] =
                 [r EXCEPT !.wrote = r.wrote \cup {"links"}, !.pc = "done",
                           !.status = 200, !.success = TRUE]]
       ELSE /\ qrRequests' = [qrRequests EXCEPT ![i] = QrAnswer(r, 500, "links update")]
            /\ UNCHANGED links
  /\ UNCHANGED <<qrCodes, clicks, products, link_clicks, invocations, now,
                 upserts, pureVars, exportVars, draftVars, bqVars>>

\* the requests of the concurrent runs: one link that exists and one that
\* does not, two well-formed identifiers and a malformed one, two names
QrBodies ==
  {[linkId |-> Str(l), identifier |-> Text(c), name |-> n,
    userId |-> Str("u1"), customData |-> Undef] :
     l \in {"L1", "L9"},
     c \in {<<"a", "b", "c">>, <<"a", "-", "b">>, <<"a", "-", "-", "b">>},
     n \in {Undef, Str("Store A"), Str("Store B")}}

NextQr ==
  \/ \E body \in QrBodies : QrReceive(body)
  \/ \E i \in 1..Len(qrRequests) : QrGetLink(i)
  \/ \E i \in 1..Len(qrRequests) : QrGetExisting(i)
  \/ \E i \in 1..Len(qrRequests) : QrGenerate(i)
  \/ \E i \in 1..Len(qrRequests) : QrSet(i)
  \/ \E i \in 1..Len(qrRequests) : QrUpdateLink(i)

SpecQr == Init /\ [][NextQr]_vars

\* the requests that have arrived
QrReqs == 1..Len(qrRequests)

\* C18: a request whose identifier was already a qrCodes document when it
\* arrived writes neither qrCodes nor links and never succeeds; unless a
\* required field is missing (400), its link is not found (404) or a read
\* fails (500), it is answered 409 with suggestions; the existing record is
\* not overwritten by it
C18_DuplicateRejected ==
  \A i \in QrReqs :
    LET r == qrRequests[i] IN
    r.existed =>
      /\ r.wrote = {} /\ ~r.success
      /\ r.pc \in {"getLink", "getExisting", "done"}
      /\ qrCodes[r.body.identifier.chars] # Undef
      /\ r.pc = "done" =>
           /\ r.status \in {400, 404, 409, 500}
           /\ r.status = 400 <=> ~Truthy(r.body.name)
           /\ r.reads = 2 <=> r.status = 409
           /\ r.status = 409 => r.suggestions = 3
           /\ r.status = 404 => LinkPosition(r.body.linkId.s) = 0

\* the second request for an identifier was answered 409 and the record is
\* still the one the first request stored
C18_Witness ==
  \E i, j \in QrReqs :
    /\ i < j
    /\ qrRequests[i].success /\ qrRequests[j].existed
    /\ qrRequests[j].body.identifier = qrRequests[i].body.identifier
    /\ qrRequests[j].body.name # qrRequests[i].body.name
    /\ qrRequests[j].status = 409
    /\ qrCodes[qrRequests[i].body.identifier.chars] = qrRecord(qrRequests[i])

(***************************************************************************)
(* createAdditionalQRCode on identifiers of every shape, one request       *)
(***************************************************************************)
QrBodiesWide ==
  [linkId : {Undef, Str("L1")},
   identifier : {Undef, Str("")} \cup {Text(c) : c \in QrIdentifiers},
   name : {Str("Store A")},
   userId : {Undef, Str("u1")},
   customData : {Undef}]

NextQrValidate ==
  \/ \E body \in QrBodiesWide : qrRequests = <<>> /\ QrReceive(body)
  \/ \E i \in 1..Len(qrRequests) : QrGetLink(i)
  \/ \E i \in 1..Len(qrRequests) : QrGetExisting(i)
  \/ \E i \in 1..Len(qrRequests) : QrGenerate(i)
  \/ \E i \in 1..Len(qrRequests) : QrSet(i)
  \/ \E i \in 1..Len(qrRequests) : QrUpdateLink(i)

SpecQrValidate == Init /\ [][NextQrValidate]_vars

LowercaseLetters ==
  {"a", "b", "c", "d", "e", "f", "g", "h", "i", "j", "k", "l", "m", "n", "o",
   "p", "q", "r", "s", "t", "u", "v", "w", "x", "y", "z"}
ReservedWords ==
  {<<"a", "p", "i">>, <<"a", "d", "m", "i", "n">>, <<"q", "r">>,
   <<"l", "i", "n", "k">>, <<"t", "e", "s", "t">>, <<"w">>,
   <<"a", "p", "p">>, <<"w", "w", "w">>}
\* the identifier is 3 to 50 characters long, of lowercase letters, digits
\* and hyphens, with no double, leading or trailing hyphen, and not reserved
WellFormedIdentifier(id) ==
  /\ id.k = "string" /\ "chars" \in DOMAIN id
  /\ Len(id.chars) >= 3 /\ Len(id.chars) <= 50
  /\ \A n \in 1..Len(id.chars) :
       \/ id.chars[n] \in LowercaseLetters
       \/ IsDigit(id.chars[n])
       \/ id.chars[n] = "-"
  /\ \A n \in 1..Len(id.chars) :
       id.chars[n] = "-" =>
         /\ n # 1 /\ n # Len(id.chars)
         /\ id.chars[n + 1] # "-"
  /\ id.chars \notin ReservedWords

\* C19: a request (with linkId and name) passes the validation exactly when
\* its identifier is well formed; a request with any other identifier is
\* answered 400 with no Firestore read or write before
C19_IdentifierValidation ==
  \A i \in QrReqs :
    LET r == qrRequests[i] IN
    IF WellFormedIdentifier(r.body.identifier)
    THEN (Truthy(r.body.linkId) /\ Truthy(r.body.name)) =>
           /\ r.status # 400
           /\ r.pc = "getLink" \/ r.reads >= 1 \/ r.error = "links get"
    ELSE /\ r.pc = "done" /\ r.status = 400 /\ ~r.success
         /\ r.reads = 0 /\ r.wrote = {} /\ r.linkData = Undef

\* the 50-character identifier went through to a stored record, while the
\* collection holds nothing else
C19_Witness ==
  \E i \in QrReqs :
    /\ qrRequests[i].success
    /\ Len(qrRequests[i].body.identifier.chars) = 50
    /\ qrCodes[Repeat("a", 50)] # Undef
    /\ \A q \in QrDocIds \ {Repeat("a", 50)} : qrCodes[q] = Undef

(***************************************************************************)
(* handleDraftChanges: the hasDraftChanges flag of newDynamicPages         *)
(***************************************************************************)
\* updates the editors make to the pages
MaxPageUpdates == 2

\* the documents an editor's update may leave
PageStates ==
  {ObjOf(p) : p \in [publishingStatus : {Str("draft"), Str("published")},
                     hasDraftChanges : {Undef, Null, Bool(FALSE), Bool(TRUE)},
                     title : {Str("t0")}]}

\* an update event handed to a new instance of the handler; by is the writer
\* whose update fired it
NewDraftRun(docId, afterData, by) ==
  [docId |-> docId, afterData |-> afterData, by |-> by, pc |-> "start",
   updates |-> 0, logs |-> <<>>]

EditorRuns == {i \in 1..Len(draftRuns) : draftRuns[i].by = "editor"}

\* an editor updates a page: the document changes and the trigger fires
UpdatePage(d, data) ==
  /\ Cardinality(EditorRuns) < MaxPageUpdates
  /\ pages[d] # Undef /\ data # pages[d]
  /\ pages' = [pages EXCEPT ![d] = data]
  /\ draftRuns' = Append(draftRuns, NewDraftRun(d, data, "editor"))
  /\ UNCHANGED <<pageUpdates, sysVars, pureVars, exportVars, qrVars, bqVars>>

\* the handler's test of the after-state, for any publishing status
needsFlagAnyStatus(afterData) ==
  \/ ~Truthy(Get(afterData, "hasDraftChanges"))
  \/ Get(afterData, "hasDraftChanges") = Bool(FALSE)

\* the handler's test of the after-state
needsFlag(afterData) ==
  /\ Get(afterData, "publishingStatus") = Str("draft")
  /\ \/ ~Truthy(Get(afterData, "hasDraftChanges"))
     \/ Get(afterData, "hasDraftChanges") = Bool(FALSE)

\* the handler reads the after-state and decides
DraftCheck(i) ==
  /\ draftRuns[i].pc = "start"
  /\ draftRuns' =
       [draftRuns EXCEPT ![i] =
          IF ~Truthy(draftRuns[i].afterData)
          THEN [@ EXCEPT !.pc = "done", !.logs = Append(@, "warn")]
          ELSE IF needsFlag(draftRuns[i].afterData)
          THEN [@ EXCEPT !.pc = "update"]
          ELSE [@ EXCEPT !.pc = "done", !.logs = Append(@, "debug")]]
  /\ UNCHANGED <<pages, pageUpdates, sysVars, pureVars, exportVars, qrVars, bqVars>>

\* the fields of the handler's update laid over the stored document
FlaggedPage(doc, stamp) ==
  Obj([f \in DOMAIN doc.o \cup {"hasDraftChanges", "lastModified"} |->
         IF f = "hasDraftChanges" THEN Bool(TRUE)
         ELSE IF f = "lastModified" THEN Timestamp(stamp)
         ELSE doc.o[f]])

\* the handler's update of the document: it succeeds, and the write fires the
\* trigger again, or it throws and the error is logged
DraftUpdate(i) ==
  /\ draftRuns[i].pc = "update"
  /\ \E ok \in BOOLEAN :
       LET d == draftRuns[i].docId
           written == FlaggedPage(pages[d], Len(pageUpdates) + 1)
       IN IF ok /\ pages[d] # Undef
          THEN /\ pages' = [pages EXCEPT ![d] = written]
               /\ pageUpdates' =
                    Append(pageUpdates,
                           [run |-> i, docId |-> d, before |-> pages,
                            after |-> [pages EXCEPT ![d] = written]])
               /\ draftRuns' =
                    Append([draftRuns EXCEPT ![i] =
                              [@ EXCEPT !.pc = "done", !.updates = @ + 1,
                                        !.logs = Append(@, "info")]],
                           NewDraftRun(d, written, "handler"))
          ELSE /\ draftRuns' =
                    [draftRuns EXCEPT ![i] =
                       [@ EXCEPT !.pc = "done", !.updates = @ + 1,
                                 !.logs = Append(@, "error")]]
               /\ UNCHANGED <<pages, pageUpdates>>
  /\ UNCHANGED <<sysVars, pureVars, exportVars, qrVars, bqVars>>

NextDraft ==
  \/ \E d \in PageIds, data \in PageStates : UpdatePage(d, data)
  \/ \E i \in 1..Len(draftRuns) : DraftCheck(i)
  \/ \E i \in 1..Len(draftRuns) : DraftUpdate(i)

SpecDraft == Init /\ [][NextDraft]_vars
\* the claim's condition on an after-state: a draft whose flag is unset
\* (absent or null) or false
DraftWithoutFlag(afterData) ==
  /\ Get(afterData, "publishingStatus") = Str("draft")
  /\ Get(afterData, "hasDraftChanges") \in {Undef, Null, Bool(FALSE)}

\* the writes a run of the handler made
WritesOf(i) == {k \in 1..Len(pageUpdates) : pageUpdates[k].run = i}

C20_Run(i) ==
  LET r == draftRuns[i]
  IN /\ ~DraftWithoutFlag(r.afterData) =>
          /\ r.updates = 0
          /\ WritesOf(i) = {}
          /\ r.pc \in {"start", "done"}
     /\ DraftWithoutFlag(r.afterData) =>
          /\ r.pc = "done" => r.updates = 1
          /\ r.pc = "done" /\ (\A n \in 1..Len(r.logs) : r.logs[n] # "error") =>
               Cardinality(WritesOf(i)) = 1
          /\ \A k \in WritesOf(i) :
               /\ pageUpdates[k].docId = r.docId
               /\ Get(pageUpdates[k].after[r.docId], "hasDraftChanges")
                    = Bool(TRUE)
               /\ \A d \in PageIds \ {r.docId} :
                    pageUpdates[k].after[d] = pageUpdates[k].before[d]
               /\ \A f \in DOMAIN pageUpdates[k].before[r.docId].o
                           \ {"hasDraftChanges", "lastModified"} :
                    Get(pageUpdates[k].after[r.docId], f)
                      = pageUpdates[k].before[r.docId].o[f]

MaxChangeEvents == 2

\* the number NaN, which Firestore stores as a double
NaN == [k |-> "NaN"]

\* the data of the documents written: one field v
ChangeDocs == {Obj([v |-> x]) : x \in {Null, NaN, Num(1), Timestamp(0)}}

\* a DocumentSnapshot: exists is false, or data() is the document
Snapshots == {Undef} \cup ChangeDocs

\* event.data: undefined, or the Change of a write
ChangeData ==
  {Undef} \cup {Obj(c) : c \in [before : Snapshots, after : Snapshots]}

\* DocumentSnapshot.exists
Exists(snapshot) == snapshot # Undef

\* JSON.stringify of a document's data: null and the numbers that are not
\* finite are written null, a Timestamp is written as its two fields
RECURSIVE JSONStringify(_)
JSONStringify(v) ==
  CASE v.k = "null" -> "null"
    [] v.k = "NaN" -> "null"
    [] v.k = "number" -> IF v.n = 0 THEN "0" ELSE "1"
    [] v.k = "Timestamp" -> "{\"_seconds\":0,\"_nanoseconds\":0}"
    [] v.k = "object" -> "{\"v\":" \o JSONStringify(v.o.v) \o "}"

\* sanitizeDataForBigQuery: a Timestamp becomes its ISO string, the values
\* that are not objects are kept
RECURSIVE sanitizeDataForBigQuery(_)
sanitizeDataForBigQuery(data) ==
  CASE data.k \in {"null", "undefined"} -> Null
    [] data.k = "object" ->
         Obj([key \in DOMAIN data.o |->
                IF data.o[key].k = "Timestamp"
                THEN ToISOString(data.o[key].ms)
                ELSE IF data.o[key].k = "object"
                THEN sanitizeDataForBigQuery(data.o[key])
                ELSE data.o[key]])
    [] OTHER -> data

\* the operation the handler derives from the two snapshots
operationOf(data) ==
  LET before == Get(data, "before")
      after == Get(data, "after")
  IN IF ~Exists(before) /\ Exists(after) THEN "CREATE"
     ELSE IF Exists(before) /\ ~Exists(after) THEN "DELETE"
     ELSE IF Exists(before) /\ Exists(after) THEN "UPDATE"
     ELSE "UNKNOWN"

\* currentData and previousData, null unless the branch taken assigned them
currentDataOf(data) ==
  IF operationOf(data) \in {"CREATE", "UPDATE"} THEN Get(data, "after") ELSE Null
previousDataOf(data) ==
  IF operationOf(data) \in {"DELETE", "UPDATE"} THEN Get(data, "before") ELSE Null

\* the wildcard {collection}/{documentId} of the trigger
ChangeParams == {[collection |-> "links", documentId |-> "d1"]}

\* the skip of a write that changed nothing, as the handler tests it
isNoOpWrite(data) ==
  /\ operationOf(data) = "UPDATE"
  /\ JSONStringify(currentDataOf(data)) = JSONStringify(previousDataOf(data))

\* the row the handler prepares; the event id is unique to the invocation
changelogRow(i, params, data) ==
  [timestamp |-> ToISOString(now),
   event_id |-> i,
   document_name |-> <<"projects", "databases", "(default)", "documents",
                       params.collection, params.documentId>>,
   document_id |-> params.documentId,
   operation |-> operationOf(data),
   collection_name |-> params.collection,
   data |-> IF Truthy(currentDataOf(data))
            THEN sanitizeDataForBigQuery(currentDataOf(data)) ELSE Null,
   old_data |-> IF Truthy(previousDataOf(data))
                THEN sanitizeDataForBigQuery(previousDataOf(data)) ELSE Null]

\* a write event arrives: the handler returns at once when the event has no
\* data or the write is a no-op, and otherwise goes on to insert its row
BqReceive(params, data) ==
  /\ Len(changeRuns) < MaxChangeEvents
  /\ changeRuns' =
       Append(changeRuns,
              [params |-> params, data |-> data,
               pc |-> IF ~Truthy(data) \/ isNoOpWrite(data)
                      THEN "done" ELSE "insert",
               log |-> IF ~Truthy(data) THEN "No data in event"
                       ELSE IF isNoOpWrite(data) THEN "Skipping no-op write"
                       ELSE ""])
  /\ UNCHANGED <<changelog, sysVars, pureVars, exportVars, qrVars, draftVars>>

\* insertToBigQuery: ensureDatasetAndTable creates what is missing, then the
\* row is inserted; either call may throw, which the handler logs
BqInsert(i) ==
  /\ changeRuns[i].pc = "insert"
  /\ \E outcome \in {"inserted", "ensure throws", "insert throws"} :
       /\ changelog' =
            CASE outcome = "inserted" ->
                   [exists |-> TRUE,
                    rows |-> Append(changelog.rows,
                                    changelogRow(i, changeRuns[i].params,
                                                 changeRuns[i].data))]
              [] outcome = "insert throws" -> [changelog EXCEPT !.exists = TRUE]
              [] OTHER -> changelog
       /\ changeRuns' =
            [changeRuns EXCEPT ![i] =
               [@ EXCEPT !.pc = "done",
                         !.log = IF outcome = "inserted"
                                 THEN "Successfully processed"
                                 ELSE "Error in firestoreToBigQuery function"]]
  /\ UNCHANGED <<sysVars, pureVars, exportVars, qrVars, draftVars>>

NextBq ==
  \/ \E params \in ChangeParams, data \in ChangeData : BqReceive(params, data)
  \/ \E i \in 1..Len(changeRuns) : BqInsert(i)

SpecBq == Init /\ [][NextBq]_vars

\* the rows a run inserted
ChangelogRowsOf(i) == {k \in 1..Len(changelog.rows) : changelog.rows[k].event_id = i}

\* C21: every inserted row is CREATE exactly when the document did not exist
\* before and exists after, DELETE exactly when it existed before and not
\* after, UPDATE exactly when it exists before and after; an UPDATE whose
\* before and after data are identical inserts no row, and every other event
\* that was processed without an error inserts exactly one row.
C21_OperationClassification ==
  \A i \in 1..Len(changeRuns) :
    LET data == changeRuns[i].data
        before == Get(data, "before")
        after == Get(data, "after")
        identical == Exists(before) /\ Exists(after) /\ before = after
    IN /\ \A k \in ChangelogRowsOf(i) :
            /\ changelog.rows[k].operation = "CREATE"
                 <=> ~Exists(before) /\ Exists(after)
            /\ changelog.rows[k].operation = "DELETE"
                 <=> Exists(before) /\ ~Exists(after)
            /\ changelog.rows[k].operation = "UPDATE"
                 <=> Exists(before) /\ Exists(after)
       /\ identical => ChangelogRowsOf(i) = {}
       /\ /\ ~identical /\ data # Undef /\ changeRuns[i].pc = "done"
          /\ changeRuns[i].log # "Error in firestoreToBigQuery function"
          => Cardinality(ChangelogRowsOf(i)) = 1

\* the invocations a click's writes triggered
InvocationsOf(c) == {i \in Invs : invocations[i].clickId = c}

\* the row a record gives when nothing older is left in it, apart from the
\* columns that read the clock
IsRowOf(row, data, clickData) ==
  \A col \in Columns \ {"last_updated"} :
    \/ col = "timestamp" /\ ~Truthy(Get(clickData, "timestamp"))
    \/ row[col] = (IF col \in DOMAIN JsonBody(data) THEN data[col] ELSE Null)

\* C22: once every invocation triggered for a click has completed without a
\* failure, the click's row is the enrichment of the document's most recent
\* after-state, never that of an older state.
C22_LatestStateWins ==
  \A c \in ClickIds :
    (/\ clicks[c] # Undef
     /\ \A i \in InvocationsOf(c) :
          invocations[i].pc = "done" /\ invocations[i].errors = {})
    => \E j \in InvocationsOf(c) :
         /\ invocations[j].after = clicks[c]
         /\ Cardinality(RowsOf(link_clicks, c)) = 1
         /\ IsRowOf(TheRow(RowsOf(link_clicks, c)), invocations[j].supabaseData,
                    clicks[c])

\* C23: in every row upserted for an invocation that found a Link and loaded
\* no Product record, product_price equals link_value, on every path through
\* getLinkAndProductData, the one where the product read throws included.
C23_PriceFallsBackToLinkValue ==
  \A k \in 1..Len(upserts) :
    LET e == invocations[upserts[k].inv].enrichedData
    IN (e.link # Undef /\ e.product = Undef) =>
         \A r \in upserts[k].after : r.product_price = r.link_value

\* the identifier a request carries, as the id of its qrCodes document
QrIdOf(i) == qrRequests[i].body.identifier.chars

\* C24: of the concurrent requests that carry one identifier at most one
\* returns success, and the qrCodes document stored under the identifier is
\* the one the successful request wrote, never overwritten by another.
C24_UniqueIdentifier ==
  \A i \in QrReqs :
    qrRequests[i].success =>
      /\ \A j \in QrReqs \ {i} :
           QrIdOf(j) = QrIdOf(i) => ~qrRequests[j].success
      /\ \A j \in QrReqs \ {i} :
           QrIdOf(j) = QrIdOf(i) => "qrCodes" \notin qrRequests[j].wrote
      /\ qrCodes[QrIdOf(i)] = qrRecord(qrRequests[i])

\* the successful requests for a link
QrSuccesses(linkId) ==
  {i \in QrReqs : qrRequests[i].success /\ qrRequests[i].body.linkId = Str(linkId)}

\* qrCodeCount as the handler reads it: 1 when unset
QrCodeCountOf(collection, n) == Or(Get(collection[n].data, "qrCodeCount"), Num(1)).n

\* C25: after n successful requests for a link, in any interleaving, the
\* link's qrCodeCount is its previous value (1 when unset) plus n.
C25_CountExact ==
  \A n \in 1..Len(links) :
    (\A i \in QrReqs : qrRequests[i].pc = "done") =>
      QrCodeCountOf(links, n)
        = QrCodeCountOf(LinksCollection, n) + Cardinality(QrSuccesses(links[n].id))

\* C26: a request answered 400, 404, 409 or 500 has left the qrCodes
\* collection and the link document unchanged, and a qrCodes record exists
\* only if the request that wrote it returned success.
C26_AllOrNothing ==
  /\ \A i \in QrReqs :
       (qrRequests[i].pc = "done" /\ ~qrRequests[i].success) =>
         /\ qrRequests[i].status \in {400, 404, 409, 500}
         /\ qrRequests[i].wrote = {}
  /\ \A q \in QrDocIds :
       qrCodes[q] # Undef =>
         \E i \in QrReqs :
           /\ QrIdOf(i) = q /\ "qrCodes" \in qrRequests[i].wrote
           /\ qrRequests[i].pc = "done" => qrRequests[i].success

=============================================================================
